---- MODULE Spec2Model ----
(***************************************************************************)
(* The OSC command bridge of Shogun-Remote-OSC: OSCServer (the inbound     *)
(* serve loop, the dispatch table, the five command handlers and the       *)
(* default handler) and ShogunTask (one backend operation on a pool        *)
(* thread), src/osc/osc_server.py.                                         *)
(*                                                                         *)
(* Strings are sequences of one-character strings, so that trimming,       *)
(* joining and address matching are computed character by character.      *)
(***************************************************************************)
EXTENDS Integers, Sequences, FiniteSets, TLC

VARIABLES
    dispatcher, \* OSCServer.dispatcher: the dispatch table
    senders,    \* the datagrams remote senders may send to the bound port
    unsent,     \* how many datagrams are still to arrive
    srvPc,      \* OSCServer.run: "bind", "timeout", "serve" or "done"
    running,    \* OSCServer.running
    hasWorker,  \* OSCServer.shogun_worker is not None
    connected,  \* shogun_worker.connected
    requests,   \* one record per received datagram (its request thread)
    tasks,      \* one record per ShogunTask handed to the thread pool
    events,     \* message_signal emissions, in order
    server,     \* OSCServer.server and its socket: "none", "open" or "closed"
    dropped,    \* received datagrams that could not be decoded
    loopErrors, \* errors the serve loop has logged
    osc_server, \* the application's self.osc_server: "held" or "none"
    stopPc,     \* stop_osc_server: "idle", "flag", "close" or "wait"
    osc_client, \* OSCServer.osc_client: <<>> for None, or <<the outbound endpoint>>
    config,     \* config.DEFAULT_OSC_BROADCAST_IP and _PORT
    settings,   \* settings_manager: osc_broadcast_ip and osc_broadcast_port
    sent,       \* the send_osc_message calls made, with their results
    capture_name, \* the capture name the capture service holds
    ip_port,    \* OSCServer.ip and OSCServer.port of the server held
    sockname,   \* <<>>, or <<the address the inbound socket was bound to>>
    ip_input,   \* the panel's ip_input and port_input
    osc_ip_port, \* settings_manager: osc_ip and osc_port
    restart,    \* start_osc_server waiting for its stop: <<>> or <<the address to start on>>
    starts,     \* how many servers start_osc_server has made
    unjoined,   \* serve threads still alive whose server the application let go of
    inputs_enabled, \* the panel's ip_input and port_input: isEnabled()
    osc_enabled, \* the panel's osc_enabled checkbox: isChecked()
    log_panel,  \* the outbound messages added to the OSC message log
    shogun_panel, \* the capture name, description and folder the panel shows
    settings_cache, \* settings_manager: osc_enabled and dark_mode
    DARK_MODE,  \* config.DARK_MODE
    chain,      \* the calls the GUI thread has still to make for the event it handles
    emitted     \* settings_changed emissions for that event, per key

\* the inbound server's life cycle, and the outbound notifier
lifeVars == <<server, dropped, loopErrors, osc_server, stopPc>>
outVars == <<osc_client, config, settings, sent>>

\* the inbound address: of the server, of its socket, and as configured
addrVars == <<ip_port, sockname, ip_input, osc_ip_port, restart, starts>>

\* the window: its panels, the settings it reads, and the call chain of the
\* event it is handling
panelVars == <<log_panel, shogun_panel>>
chainVars == <<osc_enabled, settings_cache, DARK_MODE, chain, emitted>>
guiVars == <<unjoined, inputs_enabled, panelVars, chainVars>>

vars == <<dispatcher, senders, unsent, srvPc, running, hasWorker, connected, requests, tasks, events,
          lifeVars, outVars, capture_name, addrVars, guiVars>>

----------------------------------------------------------------------------
(* Bounds of the model *)

\* datagrams delivered to the port in one run of the concurrent specification
MaxDatagrams == 2
\* longest string argument of a datagram
MaxStrLen == 3
\* map() calls that build a dispatch table of the table specification
MaxRegistrations == 2
\* QThreadPool.globalInstance().maxThreadCount(): tasks beyond it wait queued
MaxThreadCount == 2
\* send_osc_message calls in one run of the server specification
MaxSends == 2
\* exceptions handle_request() raises in one run of the server specification
MaxLoopErrors == 1
\* servers start_osc_server makes in one run of the configuration specification
MaxStarts == 2

----------------------------------------------------------------------------
(* Strings *)

Chars == {" ", "a"}

\* characters str.strip() removes
Whitespace == {" "}

Strings(n) == UNION {[1..k -> Chars] : k \in 0..n}

StrArg(s) == [t |-> "s", v |-> s]
IntArg(i) == [t |-> "i", v |-> i]

DigitChar(d) == <<"0", "1", "2", "3", "4", "5", "6", "7", "8", "9">>[d + 1]

RECURSIVE NatToStr(_)
NatToStr(n) ==
    IF n < 10 THEN <<DigitChar(n)>>
    ELSE NatToStr(n \div 10) \o <<DigitChar(n % 10)>>

\* str(arg): a string is itself, an integer is its decimal digits
PyStr(a) ==
    IF a.t = "s" THEN a.v
    ELSE IF a.v < 0 THEN <<"-">> \o NatToStr(0 - a.v) ELSE NatToStr(a.v)

RECURSIVE LStrip(_)
LStrip(s) ==
    IF s # <<>> /\ Head(s) \in Whitespace THEN LStrip(Tail(s)) ELSE s

RECURSIVE RStrip(_)
RStrip(s) ==
    IF s # <<>> /\ s[Len(s)] \in Whitespace
    THEN RStrip(SubSeq(s, 1, Len(s) - 1))
    ELSE s

\* str.strip()
Strip(s) == RStrip(LStrip(s))

RECURSIVE Join(_)
\* ", ".join(str(arg) for arg in args)
Join(args) ==
    IF args = <<>> THEN <<>>
    ELSE IF Len(args) = 1 THEN PyStr(args[1])
    ELSE PyStr(args[1]) \o <<",", " ">> \o Join(Tail(args))

----------------------------------------------------------------------------
(* OSC addresses *)

OSC_START_RECORDING == <<"/", "R", "e", "c", "o", "r", "d", "S", "t", "a", "r", "t", "S", "h", "o", "g", "u", "n", "L", "i", "v", "e">>
OSC_STOP_RECORDING == <<"/", "R", "e", "c", "o", "r", "d", "S", "t", "o", "p", "S", "h", "o", "g", "u", "n", "L", "i", "v", "e">>
OSC_SET_CAPTURE_FOLDER == <<"/", "S", "e", "t", "C", "a", "p", "t", "u", "r", "e", "F", "o", "l", "d", "e", "r">>
ADDR_SET_CAPTURE_NAME == <<"/", "S", "e", "t", "C", "a", "p", "t", "u", "r", "e", "N", "a", "m", "e">>
ADDR_SET_CAPTURE_DESCRIPTION == <<"/", "S", "e", "t", "C", "a", "p", "t", "u", "r", "e", "D", "e", "s", "c", "r", "i", "p", "t", "i", "o", "n">>

\* inbound addresses no handler is registered for
AddrUnknown == <<"/", "P", "i", "n", "g">>
AddrPrefix == <<"/", "S", "e", "t", "C", "a", "p", "t", "u", "r", "e">>
AddrWildcard == <<"/", "S", "e", "t", "C", "a", "p", "t", "u", "r", "e", "*">>


ERROR == <<"E", "R", "R", "O", "R">>

\* the addresses of the change notifications
OSC_DESCRIPTION_CHANGED == <<"/", "S", "h", "o", "g", "u", "n", "L", "i", "v", "e", "D", "e", "s", "c", "r", "i", "p", "t", "i", "o", "n">>
OSC_CAPTURE_FOLDER_CHANGED == <<"/", "S", "h", "o", "g", "u", "n", "L", "i", "v", "e", "C", "a", "p", "t", "u", "r", "e", "F", "o", "l", "d", "e", "r">>
OSC_CAPTURE_NAME_CHANGED == <<"/", "S", "h", "o", "g", "u", "n", "L", "i", "v", "e", "C", "a", "p", "t", "u", "r", "e", "N", "a", "m", "e">>

----------------------------------------------------------------------------
(* The dispatch table: pythonosc.dispatcher.Dispatcher as OSCServer uses it *)

\* setup_dispatcher mapping the folder handler to the name address
RegistrationsTwice == <<
    [address |-> OSC_START_RECORDING, handler |-> "start_recording"],
    [address |-> OSC_STOP_RECORDING, handler |-> "stop_recording"],
    [address |-> ADDR_SET_CAPTURE_NAME, handler |-> "set_capture_name"],
    [address |-> ADDR_SET_CAPTURE_DESCRIPTION, handler |-> "set_capture_description"],
    [address |-> ADDR_SET_CAPTURE_NAME, handler |-> "set_capture_folder"] >>

\* The map() calls of setup_dispatcher, in order.
Registrations == <<
    [address |-> OSC_START_RECORDING, handler |-> "start_recording"],
    [address |-> OSC_STOP_RECORDING, handler |-> "stop_recording"],
    [address |-> ADDR_SET_CAPTURE_NAME, handler |-> "set_capture_name"],
    [address |-> ADDR_SET_CAPTURE_DESCRIPTION, handler |-> "set_capture_description"],
    [address |-> OSC_SET_CAPTURE_FOLDER, handler |-> "set_capture_folder"] >>

\* Dispatcher.map(address, handler): the table keeps, per address, the list
\* of the handlers mapped to it, and map() appends to that list.
DispatcherMap(m, address, handler) ==
    IF \E i \in 1..Len(m) : m[i].address = address
    THEN [i \in 1..Len(m) |->
            IF m[i].address = address
            THEN [m[i] EXCEPT !.handlers = Append(@, handler)]
            ELSE m[i]]
    ELSE Append(m, [address |-> address, handlers |-> <<handler>>])

RECURSIVE MapAll(_, _)
MapAll(m, regs) ==
    IF regs = <<>> THEN m
    ELSE MapAll(DispatcherMap(m, Head(regs).address, Head(regs).handler), Tail(regs))

\* self.dispatcher after OSCServer.__init__
setup_dispatcher == MapAll(<<>>, Registrations)

\* \w of the regular expression the inbound address pattern is turned into
WordChar(c) == c \notin {"/", "*", "?", " ", ",", "-", "|", "+"}

\* [\w|\+], what "*" of an inbound address pattern stands for
StarChar(c) == WordChar(c) \/ c \in {"|", "+"}

RECURSIVE PatternMatches(_, _)
\* The inbound address, taken as an OSC address pattern ("?" is \w?, "*" is
\* [\w|\+]*, every other character is itself, anchored at both ends),
\* matches the registered address s.
PatternMatches(p, s) ==
    IF p = <<>> THEN s = <<>>
    ELSE IF Head(p) = "*"
    THEN \/ PatternMatches(Tail(p), s)
         \/ s # <<>> /\ StarChar(Head(s)) /\ PatternMatches(p, Tail(s))
    ELSE IF Head(p) = "?"
    THEN \/ PatternMatches(Tail(p), s)
         \/ s # <<>> /\ WordChar(Head(s)) /\ PatternMatches(Tail(p), Tail(s))
    ELSE s # <<>> /\ Head(s) = Head(p) /\ PatternMatches(Tail(p), Tail(s))

RECURSIVE MatchedHandlers(_, _)
MatchedHandlers(m, pattern) ==
    IF m = <<>> THEN <<>>
    ELSE (IF PatternMatches(pattern, Head(m).address) THEN Head(m).handlers ELSE <<>>)
         \o MatchedHandlers(Tail(m), pattern)

\* Dispatcher.handlers_for_address: the handlers of every matching entry, in
\* the table's order; the default handler when nothing matched.
handlers_for_address(m, pattern) ==
    LET hs == MatchedHandlers(m, pattern)
    IN  IF hs = <<>> THEN <<"default_handler">> ELSE hs

----------------------------------------------------------------------------
(* The handlers, up to their status event *)

Text(k, v) == [k |-> k, v |-> v]

\* What a handler does before it looks at the connection: the status events
\* it emits, whether it goes on to the connection check, the value it keeps
\* for the backend call, and whether it raised.
Went(text, val) == [emits |-> <<text>>, proceed |-> TRUE, val |-> val, raised |-> FALSE]
Returned(text) == [emits |-> <<text>>, proceed |-> FALSE, val |-> <<>>, raised |-> FALSE]
Raised == [emits |-> <<>>, proceed |-> FALSE, val |-> <<>>, raised |-> TRUE]

\* start_recording without its message_signal.emit
start_recording_silent(args) ==
    [emits |-> <<>>, proceed |-> TRUE, val |-> <<>>, raised |-> FALSE]

start_recording(args) == Went(Text("start_recording", <<>>), <<>>)

stop_recording(args) == Went(Text("stop_recording", <<>>), <<>>)

\* set_capture_name without .strip()
set_capture_name_unstripped(args) ==
    IF args = <<>> THEN Returned(Text("error_missing_name", <<>>))
    ELSE LET new_name == PyStr(args[1])
         IN  IF new_name = <<>> THEN Returned(Text("error_empty_name", <<>>))
             ELSE Went(Text("set_name", new_name), new_name)

\* set_capture_name without "if not args": args[0] raises IndexError
set_capture_name_unguarded(args) ==
    IF args = <<>> THEN Raised
    ELSE LET new_name == Strip(PyStr(args[1]))
         IN  IF new_name = <<>> THEN Returned(Text("error_empty_name", <<>>))
             ELSE Went(Text("set_name", new_name), new_name)

set_capture_name(args) ==
    IF args = <<>> THEN Returned(Text("error_missing_name", <<>>))
    ELSE LET new_name == Strip(PyStr(args[1]))
         IN  IF new_name = <<>> THEN Returned(Text("error_empty_name", <<>>))
             ELSE Went(Text("set_name", new_name), new_name)

\* set_capture_description treating its argument as name and folder are
set_capture_description_stripped(args) ==
    IF args = <<>> THEN Returned(Text("error_missing_description", <<>>))
    ELSE LET new_description == Strip(PyStr(args[1]))
         IN  IF new_description = <<>>
             THEN Returned(Text("error_empty_description", <<>>))
             ELSE Went(Text("set_description", new_description), new_description)

set_capture_description(args) ==
    IF args = <<>> THEN Returned(Text("error_missing_description", <<>>))
    ELSE LET new_description == PyStr(args[1])
         IN  Went(Text("set_description", new_description), new_description)

set_capture_folder(args) ==
    IF args = <<>> THEN Returned(Text("error_missing_folder", <<>>))
    ELSE LET new_folder_path == Strip(PyStr(args[1]))
         IN  IF new_folder_path = <<>> THEN Returned(Text("error_empty_folder", <<>>))
             ELSE Went(Text("set_folder", new_folder_path), new_folder_path)

default_handler(args) ==
    IF args = <<>> THEN Returned(Text("no_arguments", <<>>))
    ELSE Returned(Text("arguments", Join(args)))

HandlerBody(h, args) ==
    CASE h = "start_recording" -> start_recording(args)
      [] h = "stop_recording" -> stop_recording(args)
      [] h = "set_capture_name" -> set_capture_name(args)
      [] h = "set_capture_description" -> set_capture_description(args)
      [] h = "set_capture_folder" -> set_capture_folder(args)
      [] OTHER -> default_handler(args)

\* the shogun_worker coroutine a handler's task wraps
BackendOp(h) ==
    CASE h = "start_recording" -> "startcapture"
      [] h = "stop_recording" -> "stopcapture"
      [] h = "set_capture_name" -> "set_capture_name"
      [] h = "set_capture_description" -> "set_capture_description"
      [] OTHER -> "set_capture_folder"

\* the connection check left out
WorkerConnectedUnchecked == TRUE

\* self.shogun_worker and self.shogun_worker.connected
WorkerConnected == hasWorker /\ connected

----------------------------------------------------------------------------
(* The task runner *)

\* How the coroutine of a task ends. shogun_worker's operations return a
\* success flag; they may also raise an exception, or be cancelled
\* (asyncio.CancelledError, a BaseException that is no Exception).
BackendOutcomes == {"true", "false", "exception", "cancelled"}

\* _run_task connecting the default error callback whether or not the
\* caller gave one
ConnectDefaultAlways(finished_callback, error_callback) ==
    [finished |-> finished_callback,
     error |-> error_callback \o <<"default">>]

\* OSCServer._run_task, the connections it makes: the finished callback when
\* one is given (<<>> when none is), and the caller's error callback or else
\* the default one, which logs the error
Connect(finished_callback, error_callback) ==
    [finished |-> finished_callback,
     error |-> IF error_callback # <<>> THEN error_callback ELSE <<"default">>]

\* the task run by the caller itself, as task.run() would
_run_task_inline(ts, r, h, arg, nev, finished_callback, error_callback) ==
    Append(ts, [req |-> r, h |-> h, op |-> BackendOp(h), arg |-> arg,
                st |-> "done", outcome |-> "true",
                finished |-> 1, error |-> 0, logged |-> FALSE,
                propagated |-> FALSE, nev |-> nev,
                given |-> [finished |-> finished_callback, error |-> error_callback],
                sinks |-> Connect(finished_callback, error_callback),
                called |-> finished_callback])

\* OSCServer._run_task: a new ShogunTask, its signals connected, handed to
\* the pool with thread_pool.start(task); the caller goes on at once.
_run_task(ts, r, h, arg, nev, finished_callback, error_callback) ==
    Append(ts, [req |-> r, h |-> h, op |-> BackendOp(h), arg |-> arg,
                st |-> "queued", outcome |-> "none",
                finished |-> 0, error |-> 0, logged |-> FALSE,
                propagated |-> FALSE, nev |-> nev,
                given |-> [finished |-> finished_callback, error |-> error_callback],
                sinks |-> Connect(finished_callback, error_callback),
                called |-> <<>>])

\* ShogunTask.run once the coroutine has ended with `outcome`, where closing
\* the event loop in the finally clause raises when closeFails:
\*   result returned  -> finished.emit(result), then loop.close()
\*   loop.close() or the coroutine raised an Exception
\*                    -> caught: logger.error and error.emit
\*   BaseException    -> not caught by "except Exception": leaves run()
ShogunTask_run(outcome, closeFails) ==
    LET returned == outcome \in {"true", "false"}
        caught == outcome = "exception" \/ (returned /\ closeFails)
    IN  [finished |-> IF returned THEN 1 ELSE 0,
         error |-> IF caught THEN 1 ELSE 0,
         logged |-> caught,
         propagated |-> ~caught /\ ~returned]

\* The callbacks the signals of a task invoke, in order: the emission of
\* finished invokes what is connected to finished, the emission of error
\* what is connected to error.
Invoked(sinks, e) ==
    (IF e.finished = 1 THEN sinks.finished ELSE <<>>)
    \o (IF e.error = 1 THEN sinks.error ELSE <<>>)

\* The capture service after an operation has ended: set_capture_name that
\* reports success has set the name.
ShogunWorker(name, op, arg, outcome) ==
    IF op = "set_capture_name" /\ outcome = "true" THEN arg ELSE name

Running(ts) == {t \in 1..Len(ts) : ts[t].st = "running"}
Queued(ts) == {t \in 1..Len(ts) : ts[t].st = "queued"}

----------------------------------------------------------------------------
(* The outbound notifier and stop() *)

\* the outbound targets of the model: the broadcast address that is the
\* default setting, and a unicast one
DefaultTarget == [ip |-> "255.255.255.255", port |-> 9000]

Targets == {DefaultTarget, [ip |-> "10.0.0.2", port |-> 9001]}

\* the inbound addresses of the model: the default setting, and another
DefaultAddress == [ip |-> "0.0.0.0", port |-> 5555]

Addresses == {DefaultAddress, [ip |-> "127.0.0.1", port |-> 5556]}

\* the socket send_osc_message makes for the broadcast address: SO_BROADCAST
\* is set on it and it is bound to ('', 0)
BroadcastSocket == [broadcast |-> TRUE, bound |-> TRUE]

\* udp_client.SimpleUDPClient(address, port[, allow_broadcast]) of python-osc:
\* the client makes a socket of its own, which it does not bind, and sets
\* SO_BROADCAST on it when its third argument is true, as any socket object
\* is. `extra` is <<>> or holds the third argument; `now` is what the
\* settings hold at that moment.
SimpleUDPClient(target, extra, now) ==
    [ip |-> target.ip, port |-> target.port,
     broadcast |-> extra # <<>>, bound |-> FALSE,
     open |-> TRUE, configured |-> now]

\* send_osc_message making its client, for the target the config module
\* holds: with the socket it has prepared when that is the broadcast address
NewClient(cfg, now) ==
    IF cfg.ip = "255.255.255.255"
    THEN SimpleUDPClient(cfg, <<BroadcastSocket>>, now)
    ELSE SimpleUDPClient(cfg, <<>>, now)

\* sendto on the client's socket can succeed: the socket is open, and has
\* SO_BROADCAST when the target is the broadcast address
Sendable(c) == c.open /\ (c.ip = "255.255.255.255" => c.broadcast)

Has(io, x) == \E k \in 1..Len(io) : io[k] = x

\* The try block of send_osc_message: the client after it, the network
\* operations attempted ("create" a client with its socket, "send" a
\* message), and whether the block returned True, returned False or
\* raised. Creating the client raises when ~createOk and leaves
\* self.osc_client unassigned; sending raises when ~sendOk or when the
\* socket cannot send.
SendAttempt(client, cfg, now, address, createOk, sendOk) ==
    IF address = <<>>
    THEN [client |-> client, io |-> <<>>, result |-> "false"]
    ELSE IF client = <<>> /\ ~createOk
    THEN [client |-> client, io |-> <<"create">>, result |-> "raise"]
    ELSE LET c == IF client = <<>> THEN <<NewClient(cfg, now)>> ELSE client
         IN  [client |-> c,
              io |-> (IF client = <<>> THEN <<"create">> ELSE <<>>) \o <<"send">>,
              result |-> IF Sendable(c[1]) /\ sendOk THEN "true" ELSE "raise"]

\* send_osc_message creating its client before it looks at the address
send_osc_message_eager(client, cfg, now, address, createOk, sendOk) ==
    LET c == IF client = <<>> /\ createOk THEN <<NewClient(cfg, now)>> ELSE client
        a == SendAttempt(c, cfg, now, address, createOk, sendOk)
    IN  [client |-> a.client, io |-> a.io, ok |-> a.result = "true",
         caught |-> a.result = "raise", raised |-> FALSE]

\* send_osc_message without its except clause: what the try block raises
\* leaves the method
send_osc_message_uncaught(client, cfg, now, address, createOk, sendOk) ==
    LET a == SendAttempt(client, cfg, now, address, createOk, sendOk)
    IN  [client |-> a.client, io |-> a.io, ok |-> a.result = "true",
         caught |-> FALSE, raised |-> a.result = "raise"]

\* OSCServer.send_osc_message(address, value): the client after the call,
\* the network operations attempted and the result. "except Exception"
\* catches what the try block raises, logs it and returns False.
send_osc_message(client, cfg, now, address, createOk, sendOk) ==
    LET a == SendAttempt(client, cfg, now, address, createOk, sendOk)
    IN  [client |-> a.client, io |-> a.io, ok |-> a.result = "true",
         caught |-> a.result = "raise", raised |-> FALSE]

\* a send_osc_message call that has returned (or raised), as `sent` keeps it
Call(address, res) ==
    [address |-> address, pc |-> "done", ok |-> res.ok, io |-> res.io,
     caught |-> res.caught, raised |-> res.raised]

\* the fields of the server stop() works on
Instance == [running |-> running, server |-> server, osc_client |-> osc_client]

\* stop() without "if self.server": the inbound server counts as closed
\* whether or not run() had created one
stop_unguarded(s) ==
    [running |-> FALSE,
     server |-> "closed",
     osc_client |-> IF s.osc_client = <<>> THEN <<>>
                    ELSE <<[s.osc_client[1] EXCEPT !.open = FALSE]>>]

\* OSCServer.stop(): the flag is cleared; the inbound server is closed when
\* run() has created it; the socket of the outbound client is closed when
\* there is a client.
stop(s) ==
    [running |-> FALSE,
     server |-> IF s.server = "none" THEN "none" ELSE "closed",
     osc_client |-> IF s.osc_client = <<>> THEN <<>>
                    ELSE <<[s.osc_client[1] EXCEPT !.open = FALSE]>>]

\* "while True": the loop test without the flag
LoopForever(flag) == "serve"

\* "while self.running": where run() is after the loop test
LoopTest(flag) == IF flag THEN "serve" ELSE "done"

----------------------------------------------------------------------------
(* The datagrams of the model *)

Datagram(address, args) == [address |-> address, args |-> args]

\* the concurrent specification: a few datagrams, several of them in flight
CoreDatagrams ==
    { Datagram(OSC_START_RECORDING, <<>>),
      Datagram(ADDR_SET_CAPTURE_NAME, <<StrArg(<<" ", "a">>)>>),
      Datagram(AddrUnknown, <<>>) }

ArgLists ==
    {<<>>} \cup {<<StrArg(s)>> : s \in Strings(MaxStrLen)}
           \cup {<<IntArg(7)>>, <<StrArg(<<"a">>), IntArg(10)>>}

\* the dispatch specification: one datagram, every address and argument list
DispatchDatagrams ==
    { Datagram(address, args) :
        address \in {ADDR_SET_CAPTURE_NAME, ADDR_SET_CAPTURE_DESCRIPTION,
                     OSC_SET_CAPTURE_FOLDER, AddrWildcard},
        args \in ArgLists }
    \cup
    { Datagram(address, args) :
        address \in {OSC_START_RECORDING, OSC_STOP_RECORDING, AddrUnknown, AddrPrefix},
        args \in {<<>>, <<StrArg(<<"a">>), IntArg(10)>>} }

----------------------------------------------------------------------------
(* Initial states *)

\* After the program has started and start_osc_server has made a server:
\* config has read the settings, OSCServer.__init__ has run and run() is
\* about to bind.
InitServer ==
    /\ srvPc = "bind"
    /\ running = TRUE
    /\ hasWorker \in BOOLEAN
    /\ connected \in BOOLEAN
    /\ requests = <<>>
    /\ tasks = <<>>
    /\ events = <<>>
    /\ server = "none"
    /\ dropped = 0
    /\ loopErrors = 0
    /\ osc_server = "held"
    /\ stopPc = "idle"
    /\ osc_client = <<>>
    /\ sent = <<>>
    /\ capture_name = <<>>
    /\ sockname = <<>>
    /\ restart = <<>>
    /\ starts = 1
    /\ unjoined = 0
    /\ inputs_enabled = FALSE
    /\ osc_enabled = TRUE
    /\ log_panel = <<>>
    /\ shogun_panel = [name |-> <<>>, description |-> <<>>, folder |-> <<>>]
    /\ settings_cache = [osc_enabled |-> TRUE, dark_mode |-> FALSE]
    /\ DARK_MODE = FALSE
    /\ chain = <<>>
    /\ emitted = [osc_enabled |-> 0, dark_mode |-> 0]

\* config reads the stored settings when it is imported
InitSettings(stored) ==
    /\ settings \in stored
    /\ config = settings

\* the panel shows the stored inbound address, and start_osc_server has made
\* the server for it
InitAddress(stored) ==
    /\ osc_ip_port \in stored
    /\ ip_input = osc_ip_port
    /\ ip_port = ip_input

Init ==
    /\ dispatcher = setup_dispatcher
    /\ senders = CoreDatagrams
    /\ unsent = MaxDatagrams
    /\ InitServer
    /\ InitSettings({DefaultTarget})
    /\ InitAddress({DefaultAddress})

InitDispatch ==
    /\ dispatcher = setup_dispatcher
    /\ senders = DispatchDatagrams
    /\ unsent = 1
    /\ InitServer
    /\ InitSettings({DefaultTarget})
    /\ InitAddress({DefaultAddress})

\* the map() calls a dispatch table is built from in the table specification
RegistrationLists ==
    UNION { [1..n -> [address : {ADDR_SET_CAPTURE_NAME, OSC_SET_CAPTURE_FOLDER},
                      handler : {"set_capture_name", "set_capture_folder"}]] :
            n \in 1..MaxRegistrations }

\* Dispatcher.map as a function of its calls: the table is the one any
\* sequence of up to MaxRegistrations map() calls leaves.
InitTable ==
    /\ dispatcher \in {MapAll(<<>>, regs) : regs \in RegistrationLists}
    /\ senders = { Datagram(ADDR_SET_CAPTURE_NAME, <<StrArg(<<"a">>)>>),
                   Datagram(OSC_SET_CAPTURE_FOLDER, <<StrArg(<<"a">>)>>) }
    /\ unsent = 1
    /\ InitServer
    /\ InitSettings({DefaultTarget})
    /\ InitAddress({DefaultAddress})

\* the names specification: set-capture-name datagrams with two different
\* names, and the capture service connected
InitNames ==
    /\ dispatcher = setup_dispatcher
    /\ senders = { Datagram(ADDR_SET_CAPTURE_NAME, <<StrArg(<<"a">>)>>),
                   Datagram(ADDR_SET_CAPTURE_NAME, <<StrArg(<<"a", "a">>)>>) }
    /\ unsent = MaxDatagrams
    /\ InitServer
    /\ hasWorker
    /\ connected
    /\ InitSettings({DefaultTarget})
    /\ InitAddress({DefaultAddress})

\* the server specification: the server's life cycle and its notifier, with
\* a few datagrams
InitLife ==
    /\ dispatcher = setup_dispatcher
    /\ senders = { Datagram(OSC_START_RECORDING, <<>>), Datagram(AddrUnknown, <<>>) }
    /\ unsent = MaxDatagrams
    /\ InitServer
    /\ InitSettings({DefaultTarget})
    /\ InitAddress({DefaultAddress})

\* the loop specification: a few datagrams, none of them a command
InitLoop ==
    /\ dispatcher = setup_dispatcher
    /\ senders = { Datagram(AddrUnknown, <<>>),
                   Datagram(AddrUnknown, <<StrArg(<<"a">>), IntArg(10)>>) }
    /\ unsent = MaxDatagrams
    /\ InitServer
    /\ InitSettings({DefaultTarget})
    /\ InitAddress({DefaultAddress})

\* the configuration specification: the stored inbound address is any of
\* the model's
InitConfig ==
    /\ dispatcher = setup_dispatcher
    /\ senders = { Datagram(AddrUnknown, <<>>) }
    /\ unsent = 1
    /\ InitServer
    /\ InitSettings({DefaultTarget})
    /\ InitAddress(Addresses)

\* the pool specification: one start-recording datagram more than the pool
\* has threads, and the capture service connected
InitPool ==
    /\ dispatcher = setup_dispatcher
    /\ senders = { Datagram(OSC_START_RECORDING, <<>>) }
    /\ unsent = MaxThreadCount + 1
    /\ InitServer
    /\ hasWorker
    /\ connected
    /\ InitSettings({DefaultTarget})
    /\ InitAddress({DefaultAddress})

\* the notifications specification: the window at rest when the capture
\* service reports its changes, in each combination of self.osc_server and
\* the checkbox. Server held and checkbox checked is the window as
\* constructed; on_osc_status_changed(False) then leaves no server with the
\* checkbox checked; unchecking the checkbox leaves no server with the
\* checkbox unchecked, and on_osc_status_changed(True) after it a second
\* server with the checkbox unchecked. A stopped server has been joined and
\* its socket closed; a held one has just been started.
InitNotify ==
    /\ dispatcher = setup_dispatcher
    /\ senders = { Datagram(AddrUnknown, <<>>) }
    /\ unsent = 1
    /\ hasWorker = TRUE
    /\ connected = TRUE
    /\ requests = <<>>
    /\ tasks = <<>>
    /\ events = <<>>
    /\ dropped = 0
    /\ loopErrors = 0
    /\ stopPc = "idle"
    /\ restart = <<>>
    /\ chain = <<>>
    /\ osc_client = <<>>
    /\ sent = <<>>
    /\ capture_name = <<>>
    /\ log_panel = <<>>
    /\ shogun_panel = [name |-> <<>>, description |-> <<>>, folder |-> <<>>]
    /\ unjoined = 0
    /\ DARK_MODE = FALSE
    /\ InitSettings({DefaultTarget})
    /\ InitAddress({DefaultAddress})
    /\ osc_server \in {"held", "none"}
    /\ osc_enabled \in BOOLEAN
    /\ settings_cache = [osc_enabled |-> osc_enabled, dark_mode |-> FALSE]
    /\ emitted = [osc_enabled |-> IF osc_enabled THEN 0 ELSE 1, dark_mode |-> 0]
    /\ srvPc = IF osc_server = "held" THEN "bind" ELSE "done"
    /\ running = (osc_server = "held")
    /\ server = IF osc_server = "held" THEN "none" ELSE "closed"
    /\ sockname = IF osc_server = "held" THEN <<>> ELSE <<ip_port>>
    /\ inputs_enabled = (osc_server = "none")
    /\ starts = IF osc_server = "held" /\ ~osc_enabled THEN 2 ELSE 1

\* the notifier specification: the stored target is any of the model's,
\* and one datagram arrives
InitNotifier ==
    /\ dispatcher = setup_dispatcher
    /\ senders = { Datagram(OSC_START_RECORDING, <<>>) }
    /\ unsent = 1
    /\ InitServer
    /\ InitSettings(Targets)
    /\ InitAddress({DefaultAddress})

----------------------------------------------------------------------------
(* Actions *)

\* run() setting self.running = True when it has bound
BindOkRearmed ==
    /\ srvPc = "bind"
    /\ srvPc' = "timeout"
    /\ server' = "open"
    /\ sockname' = <<ip_port>>
    /\ running' = TRUE
    /\ UNCHANGED <<dispatcher, senders, unsent, hasWorker, connected, requests, tasks, events,
                   dropped, loopErrors, osc_server, stopPc, outVars, capture_name,
                   ip_port, ip_input, osc_ip_port, restart, starts, guiVars>>

\* OSCServer.run: ThreadingOSCUDPServer((ip, port), dispatcher) binds, and
\* self.server is set
BindOk ==
    /\ srvPc = "bind"
    /\ srvPc' = "timeout"
    /\ server' = "open"
    /\ sockname' = <<ip_port>>
    /\ UNCHANGED <<dispatcher, senders, unsent, running, hasWorker, connected, requests, tasks, events,
                   dropped, loopErrors, osc_server, stopPc, outVars, capture_name,
                   ip_port, ip_input, osc_ip_port, restart, starts, guiVars>>

\* the bind raises socket.error and run() returns without reporting it
BindFailUnreported ==
    /\ srvPc = "bind"
    /\ srvPc' = "done"
    /\ UNCHANGED <<dispatcher, senders, unsent, running, hasWorker, connected, requests, tasks, events,
                   lifeVars, outVars, capture_name, addrVars, guiVars>>

\* OSCServer.run: the bind raises socket.error
BindFail ==
    /\ srvPc = "bind"
    /\ srvPc' = "done"
    /\ events' = Append(events, [req |-> 0, h |-> "run", address |-> ERROR,
                                 text |-> Text("bind_failed", <<>>)])
    /\ UNCHANGED <<dispatcher, senders, unsent, running, hasWorker, connected, requests, tasks, lifeVars, outVars, capture_name, addrVars, guiVars>>

\* OSCServer.run: self._socket.settimeout(0.5), which raises on a socket
\* that stop() has closed (the outer handler logs it and run() ends); then
\* the first loop test.
SetTimeout ==
    /\ srvPc = "timeout"
    /\ srvPc' = IF server = "closed" THEN "done" ELSE LoopTest(running)
    /\ UNCHANGED <<dispatcher, senders, unsent, running, hasWorker, connected, requests, tasks, events,
                   lifeVars, outVars, capture_name, addrVars, guiVars>>

\* OSCServer.run: handle_request() receives a datagram; the server finds the
\* handlers for its address and a request thread will call them in turn.
\* run() is back at its loop test.
ReceiveDatagram ==
    /\ srvPc = "serve"
    /\ server = "open"
    /\ unsent > 0
    /\ \E d \in senders :
          requests' = Append(requests,
              [address |-> d.address, args |-> d.args,
               todo |-> handlers_for_address(dispatcher, d.address),
               pc |-> "call", val |-> <<>>, inv |-> <<>>])
    /\ unsent' = unsent - 1
    /\ srvPc' = LoopTest(running)
    /\ UNCHANGED <<dispatcher, senders, running, hasWorker, connected, tasks, events, lifeVars, outVars, capture_name, addrVars, guiVars>>

\* A handler from its entry to its status event: it returns there when it
\* rejects the arguments (and the default handler always does).
HandlerCall(r) ==
    /\ requests[r].todo # <<>>
    /\ requests[r].pc = "call"
    /\ LET q == requests[r]
           h == Head(q.todo)
           b == HandlerBody(h, q.args)
       IN  /\ events' = events \o
                  [i \in 1..Len(b.emits) |->
                      [req |-> r, h |-> h, address |-> q.address, text |-> b.emits[i]]]
           /\ requests' = [requests EXCEPT ![r] =
                  IF b.proceed
                  THEN [q EXCEPT !.pc = "check", !.val = b.val,
                                 !.inv = Append(@, [h |-> h, conn |-> "pending", raised |-> FALSE])]
                  ELSE [q EXCEPT !.todo = IF b.raised THEN <<>> ELSE Tail(@),
                                 !.inv = Append(@, [h |-> h, conn |-> "none", raised |-> b.raised])]]
    /\ UNCHANGED <<dispatcher, senders, unsent, srvPc, running, hasWorker, connected, tasks, lifeVars, outVars, capture_name, addrVars, guiVars>>

\* The rest of a command handler: it reads the connection state and, when
\* connected, submits the task; then it returns.
HandlerSubmit(r) ==
    /\ requests[r].todo # <<>>
    /\ requests[r].pc = "check"
    /\ LET q == requests[r]
           h == Head(q.todo)
           seen == IF hasWorker /\ connected THEN "yes" ELSE "no"
       IN  /\ tasks' = IF WorkerConnected
                       THEN _run_task(tasks, r, h, q.val, Len(events), <<"on_finished">>, <<>>)
                       ELSE tasks
           /\ requests' = [requests EXCEPT ![r] =
                  [q EXCEPT !.todo = Tail(@), !.pc = "call", !.val = <<>>,
                            !.inv[Len(q.inv)].conn = seen]]
    /\ UNCHANGED <<dispatcher, senders, unsent, srvPc, running, hasWorker, connected, events, lifeVars, outVars, capture_name, addrVars, guiVars>>

\* _run_task called with any callbacks: a finished callback or none, an
\* error callback or none
RunTask ==
    /\ Len(tasks) < MaxDatagrams
    /\ \E finished_callback \in {<<>>, <<"on_finished">>},
          error_callback \in {<<>>, <<"on_error">>} :
          tasks' = _run_task(tasks, 0, "start_recording", <<>>, Len(events),
                             finished_callback, error_callback)
    /\ UNCHANGED <<dispatcher, senders, unsent, srvPc, running, hasWorker, connected, requests, events,
                   lifeVars, outVars, capture_name, addrVars, guiVars>>

\* a task started only while the capture service is still connected
TaskStartIfConnected(t) ==
    /\ tasks[t].st = "queued"
    /\ \A u \in Queued(tasks) : t <= u
    /\ Cardinality(Running(tasks)) < MaxThreadCount
    /\ WorkerConnected
    /\ tasks' = [tasks EXCEPT ![t].st = "running"]
    /\ UNCHANGED <<dispatcher, senders, unsent, srvPc, running, hasWorker, connected, requests, events, lifeVars, outVars, capture_name, addrVars, guiVars>>

\* The pool gives the oldest queued task a thread: ShogunTask.run calls the
\* coroutine, which issues the backend operation.
TaskStart(t) ==
    /\ tasks[t].st = "queued"
    /\ \A u \in Queued(tasks) : t <= u
    /\ Cardinality(Running(tasks)) < MaxThreadCount
    /\ tasks' = [tasks EXCEPT ![t].st = "running"]
    /\ UNCHANGED <<dispatcher, senders, unsent, srvPc, running, hasWorker, connected, requests, events, lifeVars, outVars, capture_name, addrVars, guiVars>>

\* the capture service keeping the name of the task submitted last: a task
\* that ends after a later one has set its name sets none
TaskFinishLastSubmitted(t) ==
    /\ tasks[t].st = "running"
    /\ \E outcome \in BackendOutcomes, closeFails \in BOOLEAN :
          LET e == ShogunTask_run(outcome, closeFails)
          IN  /\ tasks' = [tasks EXCEPT ![t] =
                  [@ EXCEPT !.st = "done", !.outcome = outcome,
                            !.finished = e.finished, !.error = e.error,
                            !.logged = e.logged, !.propagated = e.propagated,
                            !.called = Invoked(tasks[t].sinks, e)]]
             /\ capture_name' =
                    IF \E u \in 1..Len(tasks) :
                          u > t /\ tasks[u].op = "set_capture_name" /\ tasks[u].outcome = "true"
                    THEN capture_name
                    ELSE ShogunWorker(capture_name, tasks[t].op, tasks[t].arg, outcome)
    /\ UNCHANGED <<dispatcher, senders, unsent, srvPc, running, hasWorker, connected, requests, events, lifeVars, outVars, addrVars, guiVars>>

\* The backend operation ends and ShogunTask.run runs to its end.
TaskFinish(t) ==
    /\ tasks[t].st = "running"
    /\ \E outcome \in BackendOutcomes, closeFails \in BOOLEAN :
          LET e == ShogunTask_run(outcome, closeFails)
          IN  /\ tasks' = [tasks EXCEPT ![t] =
                  [@ EXCEPT !.st = "done", !.outcome = outcome,
                            !.finished = e.finished, !.error = e.error,
                            !.logged = e.logged, !.propagated = e.propagated,
                            !.called = Invoked(tasks[t].sinks, e)]]
             /\ capture_name' = ShogunWorker(capture_name, tasks[t].op, tasks[t].arg, outcome)
    /\ UNCHANGED <<dispatcher, senders, unsent, srvPc, running, hasWorker, connected, requests, events, lifeVars, outVars, addrVars, guiVars>>

\* The capture service connects or loses its connection.
ConnectionChange ==
    /\ hasWorker
    /\ connected' = ~connected
    /\ UNCHANGED <<dispatcher, senders, unsent, srvPc, running, hasWorker, requests, tasks, events, lifeVars, outVars, capture_name, addrVars, guiVars>>

\* OSCServer.run: handle_request() returns without a datagram, after the
\* socket's timeout at the latest (or raises on a socket that stop() has
\* closed, which is not logged then); run() is back at its loop test.
Timeout ==
    /\ srvPc = "serve"
    /\ srvPc' = LoopTest(running)
    /\ UNCHANGED <<dispatcher, senders, unsent, running, hasWorker, connected, requests, tasks, events,
                   lifeVars, outVars, capture_name, addrVars, guiVars>>

\* OSCServer.run: a datagram that cannot be decoded arrives; the request
\* thread drops it (no handler is called), and run() is back at its loop test.
ReceiveMalformed ==
    /\ srvPc = "serve"
    /\ server = "open"
    /\ unsent > 0
    /\ unsent' = unsent - 1
    /\ dropped' = dropped + 1
    /\ srvPc' = LoopTest(running)
    /\ UNCHANGED <<dispatcher, senders, running, hasWorker, connected, requests, tasks, events,
                   server, loopErrors, osc_server, stopPc, outVars, capture_name, addrVars, guiVars>>

\* OSCServer.run: handle_request() raises; the loop logs the error when
\* the server is meant to run, and is back at its loop test.
ReceiveError ==
    /\ srvPc = "serve"
    /\ loopErrors < MaxLoopErrors
    /\ loopErrors' = IF running THEN loopErrors + 1 ELSE loopErrors
    /\ srvPc' = LoopTest(running)
    /\ UNCHANGED <<dispatcher, senders, unsent, running, hasWorker, connected, requests, tasks, events,
                   server, dropped, osc_server, stopPc, outVars, capture_name, addrVars, guiVars>>

\* a call the GUI thread has still to make: SettingsManager.set (or one key
\* of set_many), on_settings_changed, apply_theme, toggle_osc_server
Frame(f, key, value) == [f |-> f, key |-> key, value |-> value]

NoEmissions == [osc_enabled |-> 0, dark_mode |-> 0]

\* the GUI thread is in its event loop: it handles no event
GuiIdle == stopPc = "idle" /\ restart = <<>> /\ chain = <<>>

\* the GUI thread goes on with the call chain of the event it handles
GuiReady == stopPc = "idle" /\ restart = <<>> /\ chain # <<>>

\* stop_osc_server enabling the address inputs only after a stop() and wait()
stop_osc_server_locked ==
    /\ stopPc = "idle"
    /\ IF osc_server = "held"
       THEN IF srvPc # "done"
            THEN stopPc' = "flag" /\ UNCHANGED <<osc_server, inputs_enabled>>
            ELSE osc_server' = "none" /\ UNCHANGED <<stopPc, inputs_enabled>>
       ELSE UNCHANGED <<stopPc, osc_server, inputs_enabled>>
    /\ UNCHANGED <<dispatcher, senders, unsent, srvPc, running, hasWorker, connected, requests, tasks, events,
                   server, dropped, loopErrors, outVars, capture_name, addrVars, unjoined, panelVars>>

\* stop_osc_server, up to its wait(): with a server held, it asks
\* isRunning(); when the serve thread has ended it only drops the server and
\* enables the address inputs again. With no server held it does nothing.
stop_osc_server ==
    /\ stopPc = "idle"
    /\ IF osc_server = "held"
       THEN IF srvPc # "done"
            THEN stopPc' = "flag" /\ UNCHANGED <<osc_server, inputs_enabled>>
            ELSE osc_server' = "none" /\ inputs_enabled' = TRUE /\ UNCHANGED stopPc
       ELSE UNCHANGED <<stopPc, osc_server, inputs_enabled>>
    /\ UNCHANGED <<dispatcher, senders, unsent, srvPc, running, hasWorker, connected, requests, tasks, events,
                   server, dropped, loopErrors, outVars, capture_name, addrVars, unjoined, panelVars>>

\* stop_osc_server called with a server held
StopBegin ==
    /\ osc_server = "held"
    /\ chain = <<>>
    /\ stop_osc_server
    /\ UNCHANGED chainVars

\* OSCServer.stop: self.running = False
StopFlag ==
    /\ stopPc = "flag"
    /\ running' = stop(Instance).running
    /\ stopPc' = "close"
    /\ UNCHANGED <<dispatcher, senders, unsent, srvPc, hasWorker, connected, requests, tasks, events,
                   server, dropped, loopErrors, osc_server, outVars, capture_name, addrVars, guiVars>>

\* OSCServer.stop: the rest of it, which closes the inbound server if
\* self.server is set by now, and the socket of the outbound client
StopClose ==
    /\ stopPc = "close"
    /\ server' = stop(Instance).server
    /\ osc_client' = stop(Instance).osc_client
    /\ stopPc' = "wait"
    /\ UNCHANGED <<dispatcher, senders, unsent, srvPc, running, hasWorker, connected, requests, tasks, events,
                   dropped, loopErrors, osc_server, config, settings, sent, capture_name, addrVars, guiVars>>

\* start_osc_server, its end: OSCServer(ip, port, shogun_worker) is
\* assigned to self.osc_server and started, its thread about to bind, and
\* the address inputs are disabled. A server that was still held is let go
\* of, with its thread if that is alive.
OSCServer_start(address) ==
    /\ ip_port' = address
    /\ sockname' = <<>>
    /\ srvPc' = "bind"
    /\ running' = TRUE
    /\ server' = "none"
    /\ osc_client' = <<>>
    /\ sent' = <<>>
    /\ osc_server' = "held"
    /\ starts' = starts + 1
    /\ unjoined' = IF osc_server = "held" /\ srvPc # "done" THEN unjoined + 1 ELSE unjoined
    /\ inputs_enabled' = FALSE

\* stop_osc_server: wait() returns when the serve thread has ended, the
\* server is dropped and the address inputs are enabled; start_osc_server,
\* when it is the caller, goes on to make the new server
StopWait ==
    /\ stopPc = "wait"
    /\ srvPc = "done"
    /\ stopPc' = "idle"
    /\ IF restart = <<>>
       THEN /\ osc_server' = "none"
            /\ inputs_enabled' = TRUE
            /\ UNCHANGED <<srvPc, running, server, osc_client, sent,
                           ip_port, sockname, starts, restart, unjoined>>
       ELSE /\ OSCServer_start(restart[1])
            /\ restart' = <<>>
    /\ UNCHANGED <<dispatcher, senders, unsent, hasWorker, connected, requests, tasks, events,
                   dropped, loopErrors, config, settings, capture_name, ip_input, osc_ip_port,
                   panelVars, chainVars>>

\* start_osc_server making the new server without stopping the one held
start_osc_server_unstopped ==
    /\ stopPc = "idle"
    /\ starts < MaxStarts
    /\ osc_ip_port' = ip_input
    /\ OSCServer_start(ip_input)
    /\ UNCHANGED <<stopPc, restart>>
    /\ UNCHANGED <<dispatcher, senders, unsent, hasWorker, connected, requests, tasks, events,
                   dropped, loopErrors, config, settings, capture_name, ip_input, panelVars>>

\* start_osc_server: the address in the panel is stored in the settings;
\* the server held, if any, is stopped as stop_osc_server does (stop() and
\* wait() when its thread is running, else it is only dropped); then a new
\* server is made for the address read from the panel.
start_osc_server ==
    /\ stopPc = "idle"
    /\ starts < MaxStarts
    /\ osc_ip_port' = ip_input
    /\ IF osc_server = "held" /\ srvPc # "done"
       THEN /\ stopPc' = "flag"
            /\ restart' = <<ip_input>>
            /\ UNCHANGED <<srvPc, running, server, osc_client, sent, osc_server,
                           ip_port, sockname, starts, unjoined, inputs_enabled>>
       ELSE /\ OSCServer_start(ip_input)
            /\ UNCHANGED <<stopPc, restart>>
    /\ UNCHANGED <<dispatcher, senders, unsent, hasWorker, connected, requests, tasks, events,
                   dropped, loopErrors, config, settings, capture_name, ip_input, panelVars>>

\* on_osc_status_changed: the panel reports that the server is to run, or
\* not to run
on_osc_status_changed(status) ==
    /\ GuiIdle
    /\ IF status THEN start_osc_server ELSE stop_osc_server
    /\ UNCHANGED chainVars

\* SettingsManager.set that writes and emits whatever the cached value is
SettingsManager_set_always(cache, key, value) ==
    [cache |-> [cache EXCEPT ![key] = value], emit |-> TRUE]

\* SettingsManager.set, and set_many for one key: with the cached value
\* equal it returns; otherwise it updates the cache, writes the value and
\* emits settings_changed(key, value)
SettingsManager_set(cache, key, value) ==
    IF cache[key] = value
    THEN [cache |-> cache, emit |-> FALSE]
    ELSE [cache |-> [cache EXCEPT ![key] = value], emit |-> TRUE]

\* the first call of the chain is SettingsManager.set for osc_enabled or
\* dark_mode; an emission calls on_settings_changed at once
set ==
    /\ GuiReady
    /\ Head(chain).f = "set"
    /\ LET c == Head(chain)
           res == SettingsManager_set(settings_cache, c.key, c.value)
       IN  /\ settings_cache' = res.cache
           /\ emitted' = IF res.emit THEN [emitted EXCEPT ![c.key] = @ + 1] ELSE emitted
           /\ chain' = IF res.emit
                       THEN <<Frame("on_settings_changed", c.key, c.value)>> \o Tail(chain)
                       ELSE Tail(chain)
    /\ UNCHANGED <<dispatcher, senders, unsent, srvPc, running, hasWorker, connected, requests, tasks, events,
                   lifeVars, outVars, capture_name, addrVars, unjoined, inputs_enabled, panelVars,
                   osc_enabled, DARK_MODE>>

\* on_settings_changed for dark_mode, which calls apply_theme, and for
\* osc_enabled, which sets the checkbox when it shows another value: its
\* stateChanged signal calls toggle_osc_server
on_settings_changed ==
    /\ GuiReady
    /\ Head(chain).f = "on_settings_changed"
    /\ LET c == Head(chain)
       IN  IF c.key = "dark_mode"
           THEN /\ DARK_MODE' = c.value
                /\ chain' = <<Frame("apply_theme", c.key, c.value)>> \o Tail(chain)
                /\ UNCHANGED osc_enabled
           ELSE /\ osc_enabled' = c.value
                /\ chain' = IF c.value # osc_enabled
                            THEN <<Frame("toggle_osc_server", c.key, c.value)>> \o Tail(chain)
                            ELSE Tail(chain)
                /\ UNCHANGED DARK_MODE
    /\ UNCHANGED <<dispatcher, senders, unsent, srvPc, running, hasWorker, connected, requests, tasks, events,
                   lifeVars, outVars, capture_name, addrVars, unjoined, inputs_enabled, panelVars,
                   settings_cache, emitted>>

\* apply_theme: config.DARK_MODE is set, and the setting is stored
apply_theme ==
    /\ GuiReady
    /\ Head(chain).f = "apply_theme"
    /\ DARK_MODE' = Head(chain).value
    /\ chain' = <<Frame("set", "dark_mode", Head(chain).value)>> \o Tail(chain)
    /\ UNCHANGED <<dispatcher, senders, unsent, srvPc, running, hasWorker, connected, requests, tasks, events,
                   lifeVars, outVars, capture_name, addrVars, unjoined, inputs_enabled, panelVars,
                   osc_enabled, settings_cache, emitted>>

\* toggle_osc_server: start_osc_server or stop_osc_server, and then the
\* setting is stored
toggle_osc_server ==
    /\ GuiReady
    /\ Head(chain).f = "toggle_osc_server"
    /\ IF Head(chain).value THEN start_osc_server ELSE stop_osc_server
    /\ chain' = <<Frame("set", "osc_enabled", Head(chain).value)>> \o Tail(chain)
    /\ UNCHANGED <<osc_enabled, settings_cache, DARK_MODE, emitted>>

\* settings_changed for osc_ip and osc_port, reconfiguring the server held
on_settings_changed_address_live(address) ==
    /\ osc_ip_port' = address
    /\ ip_input' = address
    /\ ip_port' = address

\* set_many for osc_ip and osc_port: the address is stored, and
\* on_settings_changed shows it in the panel
on_settings_changed_address(address) ==
    /\ osc_ip_port' = address
    /\ ip_input' = address
    /\ UNCHANGED ip_port

\* the first call of the chain is set_many for osc_ip and osc_port
set_address ==
    /\ GuiReady
    /\ Head(chain).f = "set_address"
    /\ on_settings_changed_address(Head(chain).value)
    /\ chain' = Tail(chain)
    /\ UNCHANGED <<dispatcher, senders, unsent, srvPc, running, hasWorker, connected, requests, tasks, events,
                   lifeVars, outVars, capture_name, sockname, restart, starts,
                   unjoined, inputs_enabled, panelVars,
                   osc_enabled, settings_cache, DARK_MODE, emitted>>

\* the GUI thread begins to handle an event with these calls to make
Begin(calls) ==
    /\ GuiIdle
    /\ starts < MaxStarts
    /\ chain' = calls
    /\ emitted' = NoEmissions
    /\ UNCHANGED <<dispatcher, senders, unsent, srvPc, running, hasWorker, connected, requests, tasks, events,
                   lifeVars, outVars, capture_name, addrVars, unjoined, inputs_enabled, panelVars,
                   settings_cache, DARK_MODE>>

\* the user clicks the osc_enabled checkbox: stateChanged calls
\* toggle_osc_server
stateChanged ==
    /\ osc_enabled' = ~osc_enabled
    /\ Begin(<<Frame("toggle_osc_server", "osc_enabled", ~osc_enabled)>>)

\* toggle_theme: apply_theme(not config.DARK_MODE)
toggle_theme ==
    /\ Begin(<<Frame("apply_theme", "dark_mode", ~DARK_MODE)>>)
    /\ UNCHANGED osc_enabled

\* SettingsDialog.apply_settings: set_many stores what the dialog holds, in
\* the order of collect_settings: dark_mode, osc_enabled, then the address
apply_settings ==
    /\ \E dark_mode \in BOOLEAN, enabled \in BOOLEAN, address \in Addresses :
          Begin(<<Frame("set", "dark_mode", dark_mode),
                  Frame("set", "osc_enabled", enabled),
                  Frame("set_address", "osc_ip", address)>>)
    /\ UNCHANGED osc_enabled

\* the user edits the address in the panel while its inputs are enabled
EditAddress ==
    /\ GuiIdle
    /\ inputs_enabled
    /\ \E address \in Addresses : ip_input' = address
    /\ UNCHANGED <<dispatcher, senders, unsent, srvPc, running, hasWorker, connected, requests, tasks, events,
                   lifeVars, outVars, capture_name, ip_port, sockname, osc_ip_port, restart, starts, guiVars>>

\* save_current_settings: set_many stores the address and the checkbox
\* state that the panel shows
save_current_settings ==
    /\ Begin(<<Frame("set_address", "osc_ip", ip_input),
               Frame("set", "osc_enabled", osc_enabled)>>)
    /\ UNCHANGED osc_enabled

\* stop_osc_server with no server held: nothing to do
StopAgain ==
    /\ osc_server = "none"
    /\ stopPc = "idle"
    /\ UNCHANGED vars

\* the values the capture service reports in its change notifications
NotifiedValues == { <<"a">> }

\* a notification sent whenever a server is held, whatever the checkbox shows
NotificationsEnabledUnchecked == osc_server = "held"

\* self.osc_server and osc_enabled.isChecked()
NotificationsEnabled == osc_server = "held" /\ osc_enabled

\* A change notification of the capture service, handled: the panel shows
\* the new value (when it has a field for it); with a server held and the
\* checkbox checked, the target shown in the panel is stored in the
\* settings and the notification is sent, and it is added to the OSC
\* message log when send_osc_message returned True.
Notify(address, field, shown) ==
    /\ GuiIdle
    /\ NotificationsEnabled => Len(sent) < MaxSends
    /\ \E value \in NotifiedValues, panel \in Targets, createOk \in BOOLEAN, sendOk \in BOOLEAN :
          LET res == send_osc_message(osc_client, config, panel, address, createOk, sendOk)
          IN  /\ shogun_panel' = IF shown THEN [shogun_panel EXCEPT ![field] = value]
                                 ELSE shogun_panel
              /\ IF NotificationsEnabled
                 THEN /\ settings' = panel
                      /\ osc_client' = res.client
                      /\ sent' = Append(sent, Call(address, res))
                      /\ log_panel' = IF res.ok THEN Append(log_panel, address) ELSE log_panel
                 ELSE UNCHANGED <<settings, osc_client, sent, log_panel>>
    /\ UNCHANGED <<dispatcher, senders, unsent, srvPc, running, hasWorker, connected, requests, tasks, events,
                   lifeVars, config, capture_name, addrVars, unjoined, inputs_enabled, chainVars>>

on_capture_name_changed == Notify(OSC_CAPTURE_NAME_CHANGED, "name", TRUE)

on_description_changed == Notify(OSC_DESCRIPTION_CHANGED, "description", TRUE)

\* on_capture_folder_changed: the panel is updated if it has
\* update_capture_folder
on_capture_folder_changed ==
    \E shown \in BOOLEAN : Notify(OSC_CAPTURE_FOLDER_CHANGED, "folder", shown)

\* send_osc_message called with an address of the caller's, the empty one
\* included
SendMessage ==
    /\ osc_server = "held"
    /\ stopPc = "idle"
    /\ Len(sent) < MaxSends
    /\ \E address \in {<<>>, OSC_CAPTURE_NAME_CHANGED}, createOk \in BOOLEAN, sendOk \in BOOLEAN :
          LET res == send_osc_message(osc_client, config, settings, address, createOk, sendOk)
          IN  /\ osc_client' = res.client
              /\ sent' = Append(sent, Call(address, res))
    /\ UNCHANGED <<dispatcher, senders, unsent, srvPc, running, hasWorker, connected, requests, tasks, events,
                   lifeVars, config, settings, capture_name, addrVars, guiVars>>

\* send_osc_message entered by a caller on any thread, up to its test of
\* self.osc_client: with an empty address it returns at once; otherwise the
\* caller goes on to create the client when it has seen none, or to send.
SendEnter ==
    /\ osc_server = "held"
    /\ Len(sent) < MaxSends
    /\ \E address \in {<<>>, OSC_CAPTURE_NAME_CHANGED} :
          sent' = Append(sent,
              IF address = <<>>
              THEN Call(address, send_osc_message(osc_client, config, settings, address, TRUE, TRUE))
              ELSE [address |-> address,
                    pc |-> IF osc_client = <<>> THEN "create" ELSE "send",
                    ok |-> FALSE, io |-> <<>>, caught |-> FALSE, raised |-> FALSE])
    /\ UNCHANGED <<dispatcher, senders, unsent, srvPc, running, hasWorker, connected, requests, tasks, events,
                   lifeVars, osc_client, config, settings, capture_name, addrVars, guiVars>>

\* send_osc_message, a caller that has seen no client: it makes one and
\* assigns it to self.osc_client, or making it raises and the call returns
\* False
SendCreate(i) ==
    /\ sent[i].pc = "create"
    /\ \E createOk \in BOOLEAN :
          IF createOk
          THEN /\ osc_client' = <<NewClient(config, settings)>>
               /\ sent' = [sent EXCEPT ![i].pc = "send", ![i].io = Append(@, "create")]
          ELSE /\ sent' = [sent EXCEPT ![i].pc = "done", ![i].io = Append(@, "create"),
                                       ![i].caught = TRUE]
               /\ UNCHANGED osc_client
    /\ UNCHANGED <<dispatcher, senders, unsent, srvPc, running, hasWorker, connected, requests, tasks, events,
                   lifeVars, config, settings, capture_name, addrVars, guiVars>>

\* send_osc_message, the send: self.osc_client.send_message through the
\* client the attribute holds now, and the return
SendSend(i) ==
    /\ sent[i].pc = "send"
    /\ \E sendOk \in BOOLEAN :
          LET res == send_osc_message(osc_client, config, settings, sent[i].address, TRUE, sendOk)
          IN  sent' = [sent EXCEPT ![i].pc = "done", ![i].io = Append(@, "send"),
                                   ![i].ok = res.ok, ![i].caught = res.caught,
                                   ![i].raised = res.raised]
    /\ UNCHANGED <<dispatcher, senders, unsent, srvPc, running, hasWorker, connected, requests, tasks, events,
                   lifeVars, osc_client, config, settings, capture_name, addrVars, guiVars>>

Next ==
    \/ BindOk
    \/ BindFail
    \/ SetTimeout
    \/ ReceiveDatagram
    \/ \E r \in 1..Len(requests) : HandlerCall(r)
    \/ \E r \in 1..Len(requests) : HandlerSubmit(r)
    \/ \E t \in 1..Len(tasks) : TaskStart(t)
    \/ \E t \in 1..Len(tasks) : TaskFinish(t)
    \/ ConnectionChange

\* several datagrams, their requests and tasks in flight together
Spec == Init /\ [][Next]_vars

\* one datagram, drawn from every address and argument list of the model
SpecDispatch == InitDispatch /\ [][Next]_vars

\* one datagram, dispatched by a table built from any short list of map() calls
SpecTable == InitTable /\ [][Next]_vars

\* a server that serves datagrams while the capture service stays connected
NextNames ==
    \/ BindOk
    \/ SetTimeout
    \/ ReceiveDatagram
    \/ \E r \in 1..Len(requests) : HandlerCall(r)
    \/ \E r \in 1..Len(requests) : HandlerSubmit(r)
    \/ \E t \in 1..Len(tasks) : TaskStart(t)
    \/ \E t \in 1..Len(tasks) : TaskFinish(t)

\* set-capture-name datagrams with different names, their tasks in flight
\* together
SpecNames == InitNames /\ [][NextNames]_vars

\* the task runner alone, given tasks with any callbacks
NextRunner ==
    \/ RunTask
    \/ \E t \in 1..Len(tasks) : TaskStart(t)
    \/ \E t \in 1..Len(tasks) : TaskFinish(t)

SpecRunner == Init /\ [][NextRunner]_vars

\* the steps of OSCServer.run that need no datagram
RunStep == BindOk \/ BindFail \/ SetTimeout \/ Timeout

NextServer ==
    \/ Next
    \/ Timeout
    \/ ReceiveMalformed
    \/ ReceiveError
    \/ StopBegin
    \/ StopFlag
    \/ StopClose
    \/ StopWait
    \/ StopAgain

\* the server with its life cycle: datagrams, their tasks, and stop
SpecServer == InitLife /\ [][NextServer]_vars

\* run() and stop alone: the serve thread, the datagrams it receives (none
\* of them a command) with their request threads, and stop_osc_server
NextLoop ==
    \/ BindOk
    \/ BindFail
    \/ SetTimeout
    \/ ReceiveDatagram
    \/ \E r \in 1..Len(requests) : HandlerCall(r)
    \/ Timeout
    \/ ReceiveMalformed
    \/ ReceiveError
    \/ StopBegin
    \/ StopFlag
    \/ StopClose
    \/ StopWait
    \/ StopAgain

SpecLoop == InitLoop /\ [][NextLoop]_vars

\* the same, where the serve thread, once started, keeps running
SpecLoopFair == SpecLoop /\ WF_vars(RunStep)

\* servers started, stopped and restarted while the inbound address is
\* changed in the settings dialog and in the panel
NextConfig ==
    \/ BindOk
    \/ BindFail
    \/ SetTimeout
    \/ Timeout
    \/ StopBegin
    \/ StopFlag
    \/ StopClose
    \/ StopWait
    \/ StopAgain
    \/ \E status \in BOOLEAN : on_osc_status_changed(status)
    \/ stateChanged
    \/ toggle_theme
    \/ apply_settings
    \/ EditAddress
    \/ save_current_settings
    \/ set
    \/ on_settings_changed
    \/ apply_theme
    \/ toggle_osc_server
    \/ set_address

SpecConfig == InitConfig /\ [][NextConfig]_vars

\* a call of the chain the GUI thread is to make, and a step of the stop it
\* is in
ChainStep == set \/ on_settings_changed \/ apply_theme \/ toggle_osc_server \/ set_address
StopCallSteps == StopFlag \/ StopClose \/ StopWait

\* the same, where the serve thread keeps running and the GUI thread goes
\* on with the event it handles
SpecConfigFair ==
    /\ SpecConfig
    /\ WF_vars(RunStep)
    /\ WF_vars(StopCallSteps)
    /\ WF_vars(ChainStep)

\* a server whose tasks outnumber the threads of the pool, and its stop
NextPool ==
    \/ BindOk
    \/ SetTimeout
    \/ ReceiveDatagram
    \/ \E r \in 1..Len(requests) : HandlerCall(r)
    \/ \E r \in 1..Len(requests) : HandlerSubmit(r)
    \/ \E t \in 1..Len(tasks) : TaskStart(t)
    \/ \E t \in 1..Len(tasks) : TaskFinish(t)
    \/ Timeout
    \/ StopBegin
    \/ StopFlag
    \/ StopClose
    \/ StopWait

SpecPool == InitPool /\ [][NextPool]_vars

\* the same, where the pool gives a free thread to the oldest queued task
\* and the backend operation of every running task ends
SpecPoolFair ==
    /\ SpecPool
    /\ WF_vars(\E t \in 1..Len(tasks) : TaskStart(t))
    /\ \A t \in 1..(MaxThreadCount + 1) : WF_vars(t <= Len(tasks) /\ TaskFinish(t))

\* send_osc_message called from several threads at once, next to run()
NextRace ==
    \/ BindOk
    \/ BindFail
    \/ SetTimeout
    \/ Timeout
    \/ SendEnter
    \/ \E i \in 1..Len(sent) : SendCreate(i)
    \/ \E i \in 1..Len(sent) : SendSend(i)

SpecRace == InitNotifier /\ [][NextRace]_vars

\* the change notifications of the capture service, while the server is
\* started and stopped by the checkbox and by the status signal
NextNotify ==
    \/ on_capture_name_changed
    \/ on_description_changed
    \/ on_capture_folder_changed

SpecNotify == InitNotify /\ [][NextNotify]_vars

NextNotifier ==
    \/ NextServer
    \/ on_capture_name_changed
    \/ SendMessage

\* the server with its notifier: one datagram, stop, and notifications
SpecNotifier == InitNotifier /\ [][NextNotifier]_vars

----------------------------------------------------------------------------
(* What the claims speak of *)

Requests == 1..Len(requests)
Tasks == 1..Len(tasks)

\* the handlers a request has called or will call, in order
HandlersOf(r) ==
    [i \in 1..Len(requests[r].inv) |-> requests[r].inv[i].h]
    \o (IF requests[r].pc = "check" THEN Tail(requests[r].todo) ELSE requests[r].todo)

\* the tasks handler h submitted for request r
TasksOf(r, h) == {t \in Tasks : tasks[t].req = r /\ tasks[t].h = h}

\* the backend calls issued for them: a task calls its coroutine when it runs
CallsOf(r, h) == {t \in TasksOf(r, h) : tasks[t].st # "queued"}

\* the status events handler h emitted for request r
EventsOf(r, h) == {i \in 1..Len(events) : events[i].req = r /\ events[i].h = h}

----------------------------------------------------------------------------
(* C1..C5: handlers and tasks *)

\* C1: a command handler never waits for its backend operation. In the step
\* in which a handler finishes its connection check it has returned (the
\* request has moved past it), and a task it submitted in that step is only
\* queued: it has not run, and has emitted nothing.
C1_HandlerReturnsWithoutWaiting ==
    [][\A r \in Requests :
          (requests[r].pc = "check" /\ requests'[r].pc = "call")
          => /\ requests'[r].todo = Tail(requests[r].todo)
             /\ Len(tasks') <= Len(tasks) + 1
             /\ \A t \in 1..Len(tasks') :
                   t > Len(tasks)
                   => /\ tasks'[t].st = "queued"
                      /\ tasks'[t].finished = 0
                      /\ tasks'[t].error = 0]_vars

\* C1 witness: a handler has returned while the backend operation it
\* submitted is still running, and a datagram received after it has been
\* dispatched to its handler.
C1_Witness ==
    \E t \in Tasks, r \in Requests :
        /\ tasks[t].st = "running"
        /\ requests[tasks[t].req].todo = <<>>
        /\ r > tasks[t].req
        /\ requests[r].inv # <<>>

\* C2: every task that has run to its end has emitted exactly one of
\* finished and error: not both, neither twice, and not none.
C2_ExactlyOneOutcome ==
    \A t \in Tasks :
        tasks[t].st = "done" => tasks[t].finished + tasks[t].error = 1

\* C3: when the backend operation of a task failed in any way, run() has
\* emitted error, has logged it, and nothing has left run().
C3_FailureIsContained ==
    \A t \in Tasks :
        (tasks[t].st = "done" /\ tasks[t].outcome \in {"exception", "cancelled"})
        => /\ tasks[t].error = 1
           /\ tasks[t].logged
           /\ ~tasks[t].propagated

\* C4: a handler that got past its argument validation submits exactly one
\* task, wrapping its own backend call, when the capture service reported
\* connected at its check; when it reported not connected, or there is no
\* capture service, it submits no task and no backend call is ever made.
C4_TaskIffConnected ==
    \A r \in Requests : \A i \in 1..Len(requests[r].inv) :
        LET v == requests[r].inv[i]
        IN  /\ v.conn = "yes"
               => /\ Cardinality(TasksOf(r, v.h)) = 1
                  /\ \A t \in TasksOf(r, v.h) : tasks[t].op = BackendOp(v.h)
            /\ v.conn \in {"no", "pending"}
               => TasksOf(r, v.h) = {} /\ CallsOf(r, v.h) = {}

\* C4 witness: the handlers of one datagram found the service connected,
\* then not connected: the first one's backend call was issued, the other
\* one submitted nothing.
C4_Witness ==
    \E r \in Requests : \E i, j \in 1..Len(requests[r].inv) :
        /\ requests[r].inv[i].conn = "yes"
        /\ CallsOf(r, requests[r].inv[i].h) # {}
        /\ requests[r].inv[j].conn = "no"
        /\ hasWorker

\* C5: start_recording emits its status event (address, "start recording")
\* whatever the connection state and the outcome of the backend call, and
\* before it submits the task; when it found the service connected, a task
\* wrapping startcapture is submitted.
C5_StartStatusFirst ==
    /\ \A t \in Tasks :
          tasks[t].op = "startcapture"
          => \E i \in 1..tasks[t].nev :
                /\ events[i].req = tasks[t].req
                /\ events[i].address = requests[tasks[t].req].address
                /\ events[i].text = Text("start_recording", <<>>)
    /\ \A r \in Requests : \A i \in 1..Len(requests[r].inv) :
          requests[r].inv[i].h = "start_recording"
          => /\ \E e \in EventsOf(r, "start_recording") :
                   events[e].text = Text("start_recording", <<>>)
             /\ requests[r].inv[i].conn = "yes"
                => \E t \in TasksOf(r, "start_recording") : tasks[t].op = "startcapture"

\* C5 witness: the start-capture call of a start-recording datagram ended
\* in an error, and the status event is there.
C5_Witness ==
    \E t \in Tasks :
        /\ tasks[t].op = "startcapture"
        /\ tasks[t].st = "done"
        /\ tasks[t].outcome = "exception"
        /\ \E e \in EventsOf(tasks[t].req, "start_recording") : e <= tasks[t].nev

----------------------------------------------------------------------------
(* C6..C10: argument validation and dispatch *)

\* w is v without its leading and trailing whitespace
IsTrimOf(w, v) ==
    \E i \in 1..(Len(v) + 1) : \E j \in (i - 1)..Len(v) :
        /\ w = SubSeq(v, i, j)
        /\ \A k \in 1..(i - 1) : v[k] \in Whitespace
        /\ \A k \in (j + 1)..Len(v) : v[k] \in Whitespace
        /\ w # <<>> => (w[1] \notin Whitespace /\ w[Len(w)] \notin Whitespace)

IsErrorText(text) ==
    text.k \in {"error_missing_name", "error_empty_name",
                "error_missing_description", "error_empty_description",
                "error_missing_folder", "error_empty_folder"}

\* the i-th handler call of request r is a call of h with a first argument
CalledWithArg(r, i, h) ==
    /\ i \in 1..Len(requests[r].inv)
    /\ requests[r].inv[i].h = h
    /\ requests[r].args # <<>>

\* C6: set_capture_name and set_capture_folder with a first argument v. When v
\* is empty after trimming, the handler emits one error status event and
\* returns: no task and no backend call, whatever the connection state.
\* Otherwise, when it found the service connected, it submitted exactly one
\* task, and the argument of its backend call is v trimmed.
C6_NameAndFolderTrimmed ==
    \A r \in Requests : \A i \in 1..Len(requests[r].inv) :
      \A h \in {"set_capture_name", "set_capture_folder"} :
        CalledWithArg(r, i, h)
        => LET v == PyStr(requests[r].args[1])
               c == requests[r].inv[i].conn
           IN  IF IsTrimOf(<<>>, v)
               THEN /\ c = "none"
                    /\ TasksOf(r, h) = {}
                    /\ Cardinality(EventsOf(r, h)) = 1
                    /\ \A e \in EventsOf(r, h) : IsErrorText(events[e].text)
               ELSE /\ c # "none"
                    /\ c = "yes" => Cardinality(TasksOf(r, h)) = 1
                    /\ c # "yes" => TasksOf(r, h) = {}
                    /\ \A t \in TasksOf(r, h) : IsTrimOf(tasks[t].arg, v)

\* C6 witness: a name or folder with whitespace on both sides was passed on,
\* trimmed, to a backend call that was issued.
C6_Witness ==
    \E r \in Requests : \E h \in {"set_capture_name", "set_capture_folder"} :
        /\ requests[r].args = <<StrArg(<<" ", "a", " ">>)>>
        /\ \E t \in CallsOf(r, h) : tasks[t].arg = <<"a">>

\* C6 witness of the rejection: a whitespace-only name met a connected
\* service and was rejected.
C6_WitnessRejected ==
    \E r \in Requests :
        /\ requests[r].args = <<StrArg(<<" ", " ">>)>>
        /\ \E i \in 1..Len(requests[r].inv) :
              requests[r].inv[i].h = "set_capture_name" /\ requests[r].inv[i].conn = "none"
        /\ WorkerConnected

\* C7: set_capture_description with a first argument d never rejects it, and
\* when it found the service connected it submitted exactly one task whose
\* backend call gets str(d): d itself, untrimmed, when d is a string, the
\* empty string included.
C7_DescriptionVerbatim ==
    \A r \in Requests : \A i \in 1..Len(requests[r].inv) :
        CalledWithArg(r, i, "set_capture_description")
        => LET d == requests[r].args[1]
               c == requests[r].inv[i].conn
           IN  /\ c # "none"
               /\ c = "yes" => Cardinality(TasksOf(r, "set_capture_description")) = 1
               /\ \A t \in TasksOf(r, "set_capture_description") :
                     /\ tasks[t].arg = PyStr(d)
                     /\ d.t = "s" => tasks[t].arg = d.v
               /\ \A e \in EventsOf(r, "set_capture_description") :
                     ~IsErrorText(events[e].text)

\* C7 witness: the backend call for an empty description was issued.
C7_Witness ==
    \E r \in Requests :
        /\ requests[r].args = <<StrArg(<<>>)>>
        /\ \E t \in CallsOf(r, "set_capture_description") : tasks[t].arg = <<>>

\* C8: a name, description or folder datagram without arguments: the handler
\* emits one error status event and returns without raising; it submits no
\* task, so no backend call is issued.
C8_MissingArgumentHandledLocally ==
    \A r \in Requests : \A i \in 1..Len(requests[r].inv) :
        LET v == requests[r].inv[i]
        IN  (v.h \in {"set_capture_name", "set_capture_description", "set_capture_folder"}
             /\ requests[r].args = <<>>)
            => /\ ~v.raised
               /\ v.conn = "none"
               /\ Cardinality(EventsOf(r, v.h)) = 1
               /\ \A e \in EventsOf(r, v.h) : IsErrorText(events[e].text)
               /\ TasksOf(r, v.h) = {}

\* C8 witness: set_capture_name was called without arguments while the
\* service was connected.
C8_Witness ==
    \E r \in Requests :
        /\ requests[r].args = <<>>
        /\ requests[r].todo = <<>>
        /\ \E i \in 1..Len(requests[r].inv) : requests[r].inv[i].h = "set_capture_name"
        /\ WorkerConnected

RegisteredAddresses == {dispatcher[i].address : i \in 1..Len(dispatcher)}

\* the handler of the last map() call for a registered address
LastRegistered(address) ==
    LET e == CHOOSE i \in 1..Len(dispatcher) : dispatcher[i].address = address
    IN  dispatcher[e].handlers[Len(dispatcher[e].handlers)]

\* C9: a datagram whose address is a registered address is dispatched to
\* exactly one handler, the one most recently registered for that address:
\* a second map() call for an address replaces the handler of the first.
C9_LastRegistrationWins ==
    \A r \in Requests :
        requests[r].address \in RegisteredAddresses
        => HandlersOf(r) = <<LastRegistered(requests[r].address)>>

\* C9, for the table setup_dispatcher builds, where no address is mapped
\* twice: each registered address is dispatched to its one handler.
C9_OneHandlerPerAddress ==
    dispatcher = setup_dispatcher => C9_LastRegistrationWins

\* C10: an inbound address that is not, character for character, a
\* registered address is dispatched to the default handler alone.
C10_ExactAddressMatch ==
    \A r \in Requests :
        requests[r].address \notin RegisteredAddresses
        => HandlersOf(r) = <<"default_handler">>

----------------------------------------------------------------------------
(* C11..C12: the default handler and a failed bind *)

\* request r was given to the default handler alone, which has returned:
\* it emitted one status event, carrying the datagram's address and its
\* arguments joined in order (or the "no arguments" text), raised nothing
\* and submitted no task
DefaultHandled(r) ==
    /\ HandlersOf(r) = <<"default_handler">>
    /\ requests[r].todo = <<>>
       => /\ requests[r].inv = <<[h |-> "default_handler", conn |-> "none", raised |-> FALSE]>>
          /\ Cardinality(EventsOf(r, "default_handler")) = 1
          /\ \A e \in EventsOf(r, "default_handler") :
                /\ events[e].address = requests[r].address
                /\ events[e].text = IF requests[r].args = <<>>
                                    THEN Text("no_arguments", <<>>)
                                    ELSE Text("arguments", Join(requests[r].args))
    /\ \A t \in Tasks : tasks[t].req # r

\* C11: every datagram whose address has no registered handler is given to
\* the default handler, once and with its own address; the default handler
\* emits one status event (address, s), s being the arguments joined with
\* ", " in order or the "no arguments" text, never raises and never submits
\* a task.
C11_UnregisteredToDefaultHandler ==
    \A r \in Requests :
        requests[r].address \notin RegisteredAddresses => DefaultHandled(r)

\* C11, for the addresses that, taken as a pattern, match no registered
\* address: these are given to the default handler as C11 says.
C11_UnmatchedToDefaultHandler ==
    \A r \in Requests :
        MatchedHandlers(dispatcher, requests[r].address) = <<>> => DefaultHandled(r)

\* the bind of run() has failed: run() has ended and there is no server
BindFailed == srvPc = "done" /\ server = "none"

\* the status events with address "ERROR"
ErrorEvents == {i \in 1..Len(events) : events[i].address = ERROR}

\* C12: when the bind has failed, there is exactly one status event with
\* address "ERROR", run() has ended by returning, the serve loop was never
\* entered and no datagram was received or dispatched; and there is no such
\* event when the bind has not failed.
C12_BindFailureReportedOnce ==
    /\ BindFailed
       => /\ Cardinality(ErrorEvents) = 1
          /\ requests = <<>>
          /\ tasks = <<>>
          /\ dropped = 0
          /\ loopErrors = 0
          /\ unsent = MaxDatagrams
    /\ ~BindFailed => ErrorEvents = {}

\* C12 witness: the bind failed, the one event is there, and the
\* application has since stopped the server.
C12_Witness ==
    /\ BindFailed
    /\ osc_server = "none"
    /\ Len(events) = 1
    /\ events[1].address = ERROR

----------------------------------------------------------------------------
(* C13..C14: stop, the serve thread and the tasks *)

\* stop_osc_server has run to its end
StopCompleted == osc_server = "none"

\* a step of stop_osc_server or of the stop() it calls
StopStep == stopPc' # stopPc \/ osc_server' # osc_server

\* the tasks that have not run to their end
Outstanding == {t \in Tasks : tasks[t].st # "done"}

\* C13: once stop has completed, in whatever way its steps were interleaved
\* with those of the serve thread, the serve thread has ended and the
\* inbound socket is not open, so that the port can be bound again.
C13_StopClosesSocketAndJoins ==
    StopCompleted => (srvPc = "done" /\ server # "open")

\* C14: no step of stop changes a task, and a task that was still running
\* when stop had completed ends with exactly one of its two outcomes.
C14_StopLeavesTasksToFinish ==
    [][/\ StopStep => tasks' = tasks
       /\ \A t \in Tasks :
             (StopCompleted /\ tasks[t].st = "running" /\ tasks'[t].st = "done")
             => tasks'[t].finished + tasks'[t].error = 1]_vars

\* C14, for stop alone: none of its steps changes a task, queued or running.
C14_StopLeavesTasksAlone ==
    [][StopStep => tasks' = tasks]_vars

\* C14, stop does not wait: it has completed with two tasks outstanding, one
\* of them not even started.
C14_StoppedWithTasksOutstanding ==
    /\ StopCompleted
    /\ Cardinality(Outstanding) = 2
    /\ \E t \in Outstanding : tasks[t].st = "queued"

----------------------------------------------------------------------------
(* C15: the serve thread ends after a stop *)

\* C15: once the stop flag is set, the serve thread ends, whether or not
\* another datagram arrives: a receive returns when the socket's timeout
\* expires, the loop tests the flag after every receive, and it leaves when
\* the flag is set.
C15_StopEndsServeThread ==
    ~running ~> srvPc = "done"

\* C15 witness: the serve thread was in its loop and has ended after a
\* stop, and no datagram has ever arrived.
C15_Witness ==
    /\ ~running
    /\ srvPc = "done"
    /\ server = "closed"
    /\ unsent = MaxDatagrams
    /\ loopErrors = 0

----------------------------------------------------------------------------
(* C16: stop on a stopped server *)

\* a step of OSCServer.stop()
StopCallStep == stopPc \in {"flag", "close"} /\ stopPc' # stopPc

\* the server is stopped: its thread has ended and it holds no open inbound
\* socket, because the bind failed or because it has been stopped
ServerStopped == srvPc = "done" /\ server # "open"

\* C16: stop() on a server that is stopped, one whose bind failed included,
\* changes nothing of the server: not its flag, not its inbound server, not
\* its outbound client.
C16_StopOnStoppedServerIsNoOp ==
    [][(StopCallStep /\ ServerStopped) => UNCHANGED <<running, server, osc_client>>]_vars

\* C16 as amended: stop() applied to what stop() leaves changes nothing,
\* whatever the state of the server it is first applied to; and stop() on a
\* stopped server leaves the inbound side as it is and the flag cleared: all
\* it can change is the flag, when that was still set, and the socket of
\* the outbound client, when that was still open.
C16_StopIsIdempotent ==
    /\ [](stop(stop(Instance)) = stop(Instance))
    /\ []((~running /\ server # "open" /\ (osc_client = <<>> \/ ~osc_client[1].open))
          => stop(Instance) = Instance)
    /\ [][(StopCallStep /\ ServerStopped)
          => /\ UNCHANGED <<server, srvPc, requests, tasks, events, osc_server>>
             /\ ~running'
             /\ osc_client' \in {osc_client, stop(Instance).osc_client}]_vars

\* C16 witness: stop() has run on a server whose bind had failed and that
\* had an outbound client.
C16_Witness ==
    /\ BindFailed
    /\ stopPc = "wait"
    /\ ~running
    /\ osc_client # <<>>

----------------------------------------------------------------------------
(* C17..C18: errors in the serve loop, and the order of the handlers *)

\* C17: the serve loop is left only with the stop flag set; and while the
\* flag is not set, a datagram that cannot be decoded leaves a logged error
\* and the loop goes on.
C17_LoopLogsAndSurvives ==
    [][/\ (srvPc = "serve" /\ srvPc' # "serve") => ~running
       /\ (running /\ dropped' # dropped)
          => (srvPc' = "serve" /\ loopErrors' = loopErrors + 1)]_vars

\* C17, for the loop alone: it is left only with the stop flag set, neither
\* a dropped datagram nor an exception of handle_request ends it, and the
\* exception is logged; run() has ended only after a stop or a failed bind.
C17_LoopExitsOnlyOnStop ==
    /\ [][/\ (srvPc = "serve" /\ srvPc' # "serve") => ~running
          /\ (running /\ srvPc = "serve") => srvPc' = "serve"]_vars
    /\ [](srvPc = "done" => (~running \/ BindFailed))

\* C17, the loop at work after its errors: an exception was logged, a
\* datagram was dropped, and the loop, not stopped, has received one more.
C17_ServingAfterErrors ==
    /\ loopErrors > 0
    /\ dropped > 0
    /\ requests # <<>>
    /\ srvPc = "serve"
    /\ running

\* C18: handlers run one at a time and in the order of the datagrams: while
\* the handler of a datagram has not returned, no handler of a later
\* datagram has been called, and the status events are in the datagrams'
\* order.
C18_HandlersOneAtATime ==
    /\ \A r1, r2 \in Requests :
          (r1 < r2 /\ requests[r2].inv # <<>>) => requests[r1].todo = <<>>
    /\ \A i, j \in 1..Len(events) :
          i < j => events[i].req <= events[j].req

----------------------------------------------------------------------------
(* C19..C20: the outbound endpoint *)

\* the send_osc_message calls so far that had a non-empty address
SendsWithAddress == {i \in 1..Len(sent) : sent[i].address # <<>>}

\* C19: the outbound endpoint is for the target that the settings held when
\* it was created, at the first send: a target changed after the program
\* started is the one the endpoint gets.
C19_EndpointForCurrentTarget ==
    osc_client # <<>>
    => [ip |-> osc_client[1].ip, port |-> osc_client[1].port] = osc_client[1].configured

\* C20: as long as send_osc_message has not been called with a non-empty
\* address there is no outbound endpoint, whatever the server has done
\* since it was constructed: bound, served datagrams, been stopped.
C20_NoEndpointBeforeFirstSend ==
    SendsWithAddress = {} => osc_client = <<>>

\* C20 witness: the server is bound and has served a datagram whose task has
\* run, send_osc_message has been called with an empty address, and there
\* is no endpoint.
C20_Witness ==
    /\ srvPc = "serve"
    /\ \E t \in Tasks : tasks[t].st = "done"
    /\ sent # <<>>
    /\ SendsWithAddress = {}
    /\ osc_client = <<>>

\* C20, the endpoint once it is made: the first send with a non-empty
\* address has made it, after an earlier send with an empty one has not.
C20_EndpointMadeByFirstSend ==
    /\ Len(sent) = 2
    /\ sent[1].address = <<>>
    /\ sent[2].ok
    /\ osc_client # <<>>

----------------------------------------------------------------------------
(* C21..C25: send_osc_message and its endpoint *)

\* the send_osc_message calls that have ended
CallsEnded == {i \in 1..Len(sent) : sent[i].pc = "done"}

\* a step that is a whole send_osc_message call
SendStep == Len(sent') = Len(sent) + 1 /\ sent'[Len(sent')].pc = "done"

\* C21: send_osc_message fails closed. Every call returns True or False and
\* none raises; it returns False when the address is empty and when creating
\* the endpoint or sending raised; a call with an empty address attempts no
\* network operation and leaves self.osc_client as it was, so that it
\* creates no endpoint.
C21_SendFailsClosed ==
    /\ [](\A i \in CallsEnded :
            /\ ~sent[i].raised
            /\ sent[i].ok \in BOOLEAN
            /\ sent[i].address = <<>> => (~sent[i].ok /\ sent[i].io = <<>>)
            /\ sent[i].caught => ~sent[i].ok)
    /\ [][(SendStep /\ sent'[Len(sent')].address = <<>>) => osc_client' = osc_client]_vars

\* C21 witness: a call with an empty address has returned with no endpoint
\* made, and a later call whose endpoint creation or send failed has
\* returned as well.
C21_Witness ==
    /\ Len(sent) = 2
    /\ sent[1].address = <<>>
    /\ sent[2].caught
    /\ CallsEnded = {1, 2}

\* C21, both failures: the creation of the endpoint has failed in one call
\* and the send in another
C21_BothFailuresSeen ==
    /\ Len(sent) = 2
    /\ sent[1].caught /\ sent[1].io = <<"create">>
    /\ sent[2].caught /\ Has(sent[2].io, "send")

\* C22: once the application has stopped a server (it holds it no longer),
\* the socket of the outbound endpoint that server made is closed, also
\* when the serve thread had ended by itself before the stop.
C22_EndpointClosedOnceStopped ==
    (osc_server = "none" /\ osc_client # <<>>) => ~osc_client[1].open

\* C22, the stop of a server whose thread is running: stop() closes the
\* socket of the endpoint before stop_osc_server drops the server
C22_RunningServerClosesEndpoint ==
    [][(stopPc = "wait" /\ osc_server' = "none" /\ osc_client # <<>>)
       => ~osc_client'[1].open]_vars

\* C22, that case reached: a server with an endpoint stopped while serving
C22_ClosedByStop ==
    /\ osc_server = "none"
    /\ osc_client # <<>>
    /\ ~osc_client[1].open
    /\ ~BindFailed

\* the calls that attempted to construct the endpoint
Constructions == {i \in 1..Len(sent) : Has(sent[i].io, "create")}

\* C24: in one run of a server at most one call attempts to construct the
\* endpoint, whether or not that attempt, or a send, failed.
C24_OneConstructionAttempt ==
    Cardinality(Constructions) <= 1

\* C24, after a construction that succeeded: no later call constructs an
\* endpoint again, whatever failed since; the endpoint stays the one made.
C24_NoReCreation ==
    [][osc_client # <<>>
       => /\ osc_client' # <<>>
          /\ [osc_client'[1] EXCEPT !.open = TRUE] = [osc_client[1] EXCEPT !.open = TRUE]
          /\ SendStep => ~Has(sent'[Len(sent')].io, "create")]_vars

\* C24, a send that failed on the endpoint followed by one more call
C24_SentAfterFailure ==
    /\ Len(sent) = 2
    /\ sent[1].caught /\ sent[1].io = <<"create", "send">>
    /\ sent[2].io = <<"send">>

\* C25: an endpoint for 255.255.255.255 sends through a socket that has
\* broadcast permission and was bound to a local port before the first
\* send; an endpoint for any other address is a plain unicast one; and a
\* send to 255.255.255.255 succeeds only through a socket with broadcast
\* permission.
C25_BroadcastEndpointBound ==
    /\ osc_client # <<>> =>
          IF osc_client[1].ip = "255.255.255.255"
          THEN osc_client[1].broadcast /\ osc_client[1].bound
          ELSE ~osc_client[1].broadcast
    /\ \A i \in CallsEnded :
          (sent[i].ok /\ config.ip = "255.255.255.255") => osc_client[1].broadcast

\* C25 without the bound port: broadcast permission goes with the broadcast
\* address, and a send to that address succeeds only with the permission.
C25_BroadcastPermission ==
    /\ osc_client # <<>> =>
          (osc_client[1].broadcast <=> osc_client[1].ip = "255.255.255.255")
    /\ \A i \in CallsEnded :
          (sent[i].ok /\ config.ip = "255.255.255.255") => osc_client[1].broadcast

\* C25, both kinds of endpoint have sent
C25_SentBroadcast ==
    /\ osc_client # <<>> /\ osc_client[1].ip = "255.255.255.255"
    /\ \E i \in CallsEnded : sent[i].ok

C25_SentUnicast ==
    /\ osc_client # <<>> /\ osc_client[1].ip # "255.255.255.255"
    /\ \E i \in CallsEnded : sent[i].ok

----------------------------------------------------------------------------
(* C23: the first send, raced *)

\* the calls that have made an endpoint
Made ==
    {i \in 1..Len(sent) :
        Has(sent[i].io, "create") /\ (sent[i].pc = "send" \/ Has(sent[i].io, "send"))}

\* C23: calls that race on the first send construct one endpoint between
\* them: no second endpoint is made on a server.
C23_OneEndpointForRacingCalls ==
    Cardinality(Made) <= 1

\* C23, calls that do not overlap: a call that enters after an endpoint has
\* been assigned makes no other.
C23_NoEndpointAfterAssignment ==
    [][(osc_client # <<>> /\ Len(sent') = Len(sent) + 1)
       => sent'[Len(sent')].pc # "create"]_vars

\* C23, two calls in flight that have both seen no client
C23_BothSawNoClient ==
    /\ Len(sent) = 2
    /\ sent[1].pc = "create"
    /\ sent[2].pc = "create"

----------------------------------------------------------------------------
(* C26: two set-capture-name tasks *)

\* task t ends in this step, its operation reporting success
EndsWell(t) ==
    /\ tasks[t].st = "running"
    /\ tasks'[t].st = "done"
    /\ tasks'[t].outcome = "true"

\* C26: set-capture-name tasks are not serialized, and the name the capture
\* service holds is that of the task whose operation completed last: every
\* such task that completes sets its own name, whichever was submitted
\* first, and the name changes in no other way.
C26_LastToCompleteWins ==
    /\ [][\A t \in Tasks :
            (EndsWell(t) /\ tasks[t].op = "set_capture_name")
            => capture_name' = tasks[t].arg]_vars
    /\ [][capture_name' # capture_name
          => \E t \in Tasks :
                EndsWell(t) /\ tasks[t].op = "set_capture_name"
                /\ capture_name' = tasks[t].arg]_vars

\* C26 witness: two tasks with different names have both completed and the
\* name is that of the one submitted first, which completed last.
C26_Witness ==
    /\ Len(tasks) = 2
    /\ \A t \in Tasks : tasks[t].st = "done" /\ tasks[t].outcome = "true"
    /\ tasks[1].arg # tasks[2].arg
    /\ capture_name = tasks[1].arg

\* C26, the other order: the task submitted last completed last
C26_SubmittedLastCompletedLast ==
    /\ Len(tasks) = 2
    /\ \A t \in Tasks : tasks[t].st = "done" /\ tasks[t].outcome = "true"
    /\ tasks[1].arg # tasks[2].arg
    /\ capture_name = tasks[2].arg

\* C26, not serialized: both tasks are running at once
C26_BothRunning ==
    /\ Len(tasks) = 2
    /\ tasks[1].arg # tasks[2].arg
    /\ \A t \in Tasks : tasks[t].st = "running"

----------------------------------------------------------------------------
(* C27..C29: failures of tasks, and their callbacks *)

\* task t ends in this step, its operation having failed or been cancelled
EndsFailed(t) ==
    /\ tasks[t].st = "running"
    /\ tasks'[t].st = "done"
    /\ tasks'[t].outcome \in {"exception", "cancelled"}

\* C27: tasks are isolated. When the operation of a task fails or is
\* cancelled, the failure stays in that task: its error callback fires and
\* nothing else of it, no exception leaves it, every other task is left as
\* it is, to emit its own outcome, and the serve loop goes on.
C27_TasksIsolated ==
    [][\A t \in Tasks :
          EndsFailed(t)
          => /\ \A u \in Tasks \ {t} : tasks'[u] = tasks[u]
             /\ tasks'[t].called = tasks[t].sinks.error
             /\ ~tasks'[t].propagated
             /\ UNCHANGED <<srvPc, running, server, requests, events>>]_vars

\* C27, the other tasks and the loop alone: a task that ends, however it
\* ends, changes no other task, and neither the serve loop nor the
\* requests; and a task whose operation returned has emitted finished.
C27_OthersAndLoopUntouched ==
    /\ [][\A t \in Tasks :
            (tasks[t].st = "running" /\ tasks'[t].st = "done")
            => /\ \A u \in Tasks \ {t} : tasks'[u] = tasks[u]
               /\ UNCHANGED <<srvPc, running, server, requests, events>>]_vars
    /\ [](\A t \in Tasks :
            (tasks[t].st = "done" /\ tasks[t].outcome \in {"true", "false"})
            => tasks[t].finished = 1)

\* C27, a failure next to a task that went on: one task has failed, another
\* has emitted finished after it, and the loop is serving.
C27_FailedNextToFinished ==
    /\ Len(tasks) = 2
    /\ tasks[1].outcome = "exception"
    /\ tasks[2].outcome = "true" /\ tasks[2].finished = 1 /\ tasks[2].error = 0
    /\ srvPc = "serve"

\* C28: a task whose backend operation has failed has emitted error, the
\* failure is logged, a status event for it is on the status channel (a
\* message_signal emission made by an error callback of the task), and
\* nothing has left the task.
C28_TaskFailureSurfaced ==
    \A t \in Tasks :
        (tasks[t].st = "done" /\ tasks[t].outcome = "exception")
        => /\ tasks[t].error = 1
           /\ tasks[t].logged
           /\ ~tasks[t].propagated
           /\ \E i \in 1..Len(events) :
                 events[i].req = tasks[t].req /\ Has(tasks[t].sinks.error, events[i].h)

\* C28 without the status event: the failure is caught, emitted as error,
\* logged by run() and given to the default error callback, and leaves the
\* status channel as it was.
C28_FailureCapturedAndLogged ==
    /\ [](\A t \in Tasks :
            (tasks[t].st = "done" /\ tasks[t].outcome = "exception")
            => /\ tasks[t].error = 1
               /\ tasks[t].logged
               /\ ~tasks[t].propagated
               /\ tasks[t].called = <<"default">>)
    /\ [][\A t \in Tasks : EndsFailed(t) => events' = events]_vars

\* C28, a task that failed after its handler's status event
C28_FailedTask ==
    \E t \in Tasks :
        /\ tasks[t].outcome = "exception"
        /\ \E i \in 1..Len(events) : events[i].req = tasks[t].req

\* C29: every task has one error sink, the caller's error callback when one
\* was given and the default one otherwise, and a finished callback only
\* when one was given; the emission of error invokes the error sink and
\* never the finished callback, the emission of finished the finished
\* callback and never the error sink.
C29_OneErrorSink ==
    \A t \in Tasks :
        LET k == tasks[t]
        IN  /\ Len(k.sinks.error) = 1
            /\ k.sinks.error = (IF k.given.error # <<>> THEN k.given.error ELSE <<"default">>)
            /\ k.sinks.finished = k.given.finished
            /\ k.st = "done" =>
                  /\ k.called = (IF k.finished = 1 THEN k.given.finished ELSE <<>>)
                                \o (IF k.error = 1 THEN k.sinks.error ELSE <<>>)
                  /\ (k.error = 1 /\ k.finished = 0) => ~Has(k.called, "on_finished")
                  /\ (k.finished = 1 /\ k.error = 0)
                     => (~Has(k.called, "on_error") /\ ~Has(k.called, "default"))

\* C29 witness: one task was given an error callback and no finished
\* callback, another a finished callback only; the first has failed and
\* its callback was invoked, the second has failed and the default
\* callback was.
C29_Witness ==
    /\ Len(tasks) = 2
    /\ tasks[1].given = [finished |-> <<>>, error |-> <<"on_error">>]
    /\ tasks[1].outcome = "exception" /\ tasks[1].called = <<"on_error">>
    /\ tasks[2].given = [finished |-> <<"on_finished">>, error |-> <<>>]
    /\ tasks[2].outcome = "exception" /\ tasks[2].called = <<"default">>

\* C29, finished outcomes: with a finished callback given it is invoked,
\* with none given nothing is
C29_FinishedSeen ==
    /\ Len(tasks) = 2
    /\ tasks[1].given.finished = <<>>
    /\ tasks[1].finished = 1 /\ tasks[1].error = 0 /\ tasks[1].called = <<>>
    /\ tasks[2].given.finished # <<>>
    /\ tasks[2].finished = 1 /\ tasks[2].error = 0 /\ tasks[2].called = <<"on_finished">>

----------------------------------------------------------------------------
(* C30: the inbound address of a running server *)

\* C30: the address of a server does not change as long as it is the server
\* held, whatever is changed in the settings or the panel, and its socket is
\* bound to that address; another address is served only by a new server,
\* made by start_osc_server for the address the panel held, after the
\* thread of the server before it has ended.
C30_BindAddressFixed ==
    /\ [](sockname # <<>> => sockname[1] = ip_port)
    /\ [][starts' = starts
          => /\ ip_port' = ip_port
             /\ sockname # <<>> => sockname' = sockname]_vars
    /\ [][starts' # starts
          => /\ starts' = starts + 1
             /\ osc_server = "none" \/ srvPc = "done"
             /\ ip_port' \in {ip_input} \cup {restart[i] : i \in 1..Len(restart)}
             /\ sockname' = <<>>]_vars

\* C30 witness: a restarted server is bound and serving at one address
\* while the settings and the panel hold another.
C30_Witness ==
    /\ starts > 1
    /\ srvPc = "serve"
    /\ running
    /\ sockname = <<ip_port>>
    /\ osc_ip_port # ip_port
    /\ ip_input # ip_port

\* C30, stop, reconfigure, start: the server made last serves another
\* address than the first one did
C30_RestartedElsewhere ==
    /\ starts > 1
    /\ srvPc = "serve"
    /\ sockname = <<ip_port>>
    /\ ip_port # DefaultAddress
    /\ osc_ip_port = ip_port

----------------------------------------------------------------------------
(* C31: every task reaches an outcome *)

\* task t has been handed to the pool
Submitted(t) == t <= Len(tasks)

\* C31: every task handed to the pool, also one queued behind a full pool
\* and one outstanding when the server is stopped, comes to emit finished
\* or error.
C31_EveryTaskReachesOutcome ==
    \A t \in 1..(MaxThreadCount + 1) :
        Submitted(t) ~> (Submitted(t) /\ tasks[t].finished + tasks[t].error > 0)

\* C31, the scheduling alone: the task that was handed to the pool last,
\* behind the tasks that fill it, is run, and run() comes to its end.
C31_QueuedTaskRunsToEnd ==
    Submitted(MaxThreadCount + 1)
    ~> (Submitted(MaxThreadCount + 1) /\ tasks[MaxThreadCount + 1].st = "done")

\* C31, behind a full pool: a task waits queued while every thread of the
\* pool runs a task, and the server has been stopped.
C31_QueuedBehindFullPoolAtStop ==
    /\ StopCompleted
    /\ Cardinality(Running(tasks)) = MaxThreadCount
    /\ Queued(tasks) # {}

\* C31, a task that was queued behind a full pool when the server was
\* stopped has ended with neither outcome.
C31_EndedWithoutOutcome ==
    /\ StopCompleted
    /\ Len(tasks) = MaxThreadCount + 1
    /\ tasks[MaxThreadCount + 1].st = "done"
    /\ tasks[MaxThreadCount + 1].finished + tasks[MaxThreadCount + 1].error = 0

----------------------------------------------------------------------------
(* C32: one status event per datagram *)

\* the status events emitted for request r, by whichever handler
EventsFor(r) == {i \in 1..Len(events) : events[i].req = r}

\* C32: a datagram has at most one status event, exactly one once its
\* handlers have returned, and every task submitted for it was submitted
\* after that event.
C32_OneStatusEventPerDatagram ==
    \A r \in Requests :
        /\ Cardinality(EventsFor(r)) <= 1
        /\ requests[r].todo = <<>> => Cardinality(EventsFor(r)) = 1
        /\ \A t \in Tasks :
              tasks[t].req = r => \E i \in EventsFor(r) : i <= tasks[t].nev

\* C32, handler by handler: every handler a datagram was given to has
\* emitted exactly one status event for it by the time it has passed its
\* argument validation or returned, on every path, and a task it submitted
\* was submitted after that event.
C32_OneStatusEventPerHandlerCall ==
    \A r \in Requests :
        /\ \A i \in 1..Len(requests[r].inv) :
              LET h == requests[r].inv[i].h
              IN  /\ Cardinality(EventsOf(r, h)) = 1
                  /\ \A t \in TasksOf(r, h) : \E e \in EventsOf(r, h) : e <= tasks[t].nev
        /\ Cardinality(EventsFor(r)) = Len(requests[r].inv)

\* C32, one datagram given to several handlers: each has emitted its own
\* status event, one of them rejecting the argument and one finding the
\* capture service connected.
C32_SeveralEventsForOneDatagram ==
    \E r \in Requests :
        /\ requests[r].todo = <<>>
        /\ Cardinality(EventsFor(r)) > 1
        /\ \E i \in 1..Len(requests[r].inv) : requests[r].inv[i].conn = "none"
        /\ \E i \in 1..Len(requests[r].inv) : requests[r].inv[i].conn = "yes"

----------------------------------------------------------------------------
(* C33: the connection is read by the handler alone *)

\* the queued task the pool would start next, a thread being free
NextToStart(t) ==
    /\ tasks[t].st = "queued"
    /\ \A u \in Queued(tasks) : t <= u
    /\ Cardinality(Running(tasks)) < MaxThreadCount

\* C33: a submitted task is started, and its backend operation invoked,
\* whatever the connection state has become: the task next in the queue can
\* be started in every state, no step withdraws a task or puts a started
\* one back, and a change of the connection changes no task.
C33_ConnectionReadOnlyByHandler ==
    /\ [](\A t \in Tasks : NextToStart(t) => ENABLED TaskStart(t))
    /\ [][/\ Len(tasks') >= Len(tasks)
          /\ \A t \in Tasks :
                /\ tasks'[t].op = tasks[t].op
                /\ tasks'[t].req = tasks[t].req
                /\ tasks[t].st # "queued" => tasks'[t].st # "queued"
          /\ connected' # connected => tasks' = tasks]_vars

\* C33 witness: a handler found the capture service connected and submitted
\* its task; the connection is lost, and the task is still queued.
C33_Witness ==
    \E t \in Tasks :
        /\ NextToStart(t)
        /\ hasWorker
        /\ ~connected
        /\ \E i \in 1..Len(requests[tasks[t].req].inv) :
              /\ requests[tasks[t].req].inv[i].h = tasks[t].h
              /\ requests[tasks[t].req].inv[i].conn = "yes"

\* C33, the operation invoked without a connection: with the capture
\* service not connected, one task is running and one has run to its end.
C33_RunDisconnected ==
    /\ hasWorker
    /\ ~connected
    /\ \E t \in Tasks : tasks[t].st = "running"
    /\ \E t \in Tasks : tasks[t].st = "done"

----------------------------------------------------------------------------
(* C34: one server, one serve thread *)

\* the serve threads that are alive: that of the server held, and those of
\* servers the application let go of while their thread was alive
ThreadsAlive == unjoined + (IF srvPc # "done" THEN 1 ELSE 0)

\* C34: whatever start and stop calls were made, at most one serve thread
\* is alive and it is the thread of the one server held; a new server is
\* made only when none is held or the thread of the one held has ended.
C34_OneServerOneThread ==
    /\ [](ThreadsAlive <= 1)
    /\ [](unjoined = 0)
    /\ [](osc_server = "none" => srvPc = "done")
    /\ [][starts' # starts => (osc_server = "none" \/ srvPc = "done")]_vars

\* C34 witness: start_osc_server, called with a server running, has stopped
\* it and waited for its thread, which has ended; the next server is about
\* to be made.
C34_Witness ==
    /\ restart # <<>>
    /\ stopPc = "wait"
    /\ srvPc = "done"
    /\ server = "closed"
    /\ starts = MaxStarts - 1
    /\ ThreadsAlive = 0

\* C34, after the restarts: the server made last is serving, alone.
C34_RestartedAlone ==
    /\ starts = MaxStarts
    /\ osc_server = "held"
    /\ srvPc = "serve"
    /\ ThreadsAlive = 1

----------------------------------------------------------------------------
(* C35: the running flag of a server *)

\* the step leaves the server held an instance of its own: no new server
\* is made in it
SameInstance == starts' = starts

\* C35: the running flag of an instance is never set back to true; an
\* instance whose flag is false does not enter its serve loop, and one
\* whose thread has ended does not run again; a serve thread that runs
\* after one has ended is that of a newly made instance, whose flag is true.
C35_RunningNeverSetBack ==
    /\ [][SameInstance => (running' => running)]_vars
    /\ [][(SameInstance /\ ~running /\ srvPc # "serve") => srvPc' # "serve"]_vars
    /\ [][(SameInstance /\ srvPc = "done") => srvPc' = "done"]_vars
    /\ [][~SameInstance => (starts' = starts + 1 /\ running' /\ srvPc' = "bind")]_vars

\* C35 witness: an instance stopped before it had bound went on to bind,
\* saw its flag false at the first loop test and ended without serving.
C35_Witness ==
    /\ ~running
    /\ srvPc = "done"
    /\ sockname # <<>>
    /\ server = "open"

\* C35, a restart: after a stop that ended a serving instance, the instance
\* made next is serving with its flag true.
C35_NewInstanceServes ==
    /\ starts > 1
    /\ running
    /\ srvPc = "serve"
    /\ stopPc = "idle"

----------------------------------------------------------------------------
(* C38: the address inputs and the server held *)

\* no start_osc_server or stop_osc_server call is under way
CallsCompleted == stopPc = "idle" /\ restart = <<>>

\* C38: when no start or stop call is under way, the address inputs are
\* disabled exactly when a server is held, whether its socket is bound, its
\* bind failed or its thread has ended.
C38_InputsDisabledIffServerHeld ==
    CallsCompleted => (~inputs_enabled <=> osc_server = "held")

\* C38 witness: the server that start_osc_server made second failed to
\* bind; it is still held, and the inputs are disabled.
C38_Witness ==
    /\ CallsCompleted
    /\ starts > 1
    /\ osc_server = "held"
    /\ srvPc = "done"
    /\ sockname = <<>>
    /\ running
    /\ ~inputs_enabled

\* C38, the stop of a server that failed to bind: no server is held and the
\* inputs are enabled.
C38_StoppedAfterFailedBind ==
    /\ CallsCompleted
    /\ osc_server = "none"
    /\ sockname = <<>>
    /\ running
    /\ inputs_enabled

----------------------------------------------------------------------------
(* C37: the chain a settings change sets off *)

\* C37: the calls an event sets off come to an end, and settings_changed
\* is emitted at most once for osc_enabled and at most once for dark_mode
\* on the way: set with the cached value emits nothing.
C37_SettingsChainEnds ==
    /\ [](emitted.osc_enabled <= 1 /\ emitted.dark_mode <= 1)
    /\ (chain # <<>>) ~> (chain = <<>>)

\* C37 witness: an event that changed osc_enabled and dark_mode has been
\* handled to its end: each was emitted once, the theme is applied, the
\* checkbox is checked and the server it started is held.
C37_Witness ==
    /\ GuiIdle
    /\ emitted = [osc_enabled |-> 1, dark_mode |-> 1]
    /\ DARK_MODE
    /\ settings_cache = [osc_enabled |-> TRUE, dark_mode |-> TRUE]
    /\ osc_enabled
    /\ osc_server = "held"
    /\ starts > 1

\* C37, set with the cached value: toggle_osc_server has stored the value
\* the chain began with, and the chain ended there.
C37_SetWithCachedValue ==
    /\ GuiIdle
    /\ emitted = [osc_enabled |-> 1, dark_mode |-> 0]
    /\ ~osc_enabled
    /\ ~settings_cache.osc_enabled
    /\ osc_server = "none"

----------------------------------------------------------------------------
(* C36: when a change notification is sent, and when it is logged *)

\* a send_osc_message call was made in the step
SentInStep == Len(sent') > Len(sent)

\* C36: a notification is sent only with a server held and the checkbox
\* checked; the OSC message log gains a line only in a step that sends, the
\* line of the message sent, and only when send_osc_message returned true;
\* a notification handled without a server or with the checkbox unchecked
\* sends nothing, makes no endpoint and logs nothing.
C36_NotifyOnlyWhenEnabled ==
    [][/\ SentInStep => (osc_server = "held" /\ osc_enabled)
       /\ log_panel' # log_panel
          => /\ SentInStep
             /\ sent'[Len(sent')].ok
             /\ log_panel' = Append(log_panel, sent'[Len(sent')].address)
       /\ (SentInStep /\ ~sent'[Len(sent')].ok) => log_panel' = log_panel
       /\ (shogun_panel' # shogun_panel /\ ~(osc_server = "held" /\ osc_enabled))
          => (sent' = sent /\ log_panel' = log_panel /\ osc_client' = osc_client)]_vars

\* C36 witness: two notifications were sent with the server held and the
\* checkbox checked; the first send succeeded and is in the log, the second
\* failed and is not.
C36_Witness ==
    /\ osc_server = "held"
    /\ osc_enabled
    /\ Len(sent) = 2
    /\ sent[1].ok
    /\ ~sent[2].ok
    /\ log_panel = <<sent[1].address>>
    /\ shogun_panel.name # <<>>

\* C36, checkbox unchecked: a server is held (the status signal started
\* it), the panel shows all three notified values, and nothing was sent by
\* this server and nothing logged.
C36_HeldButUnchecked ==
    /\ osc_server = "held"
    /\ ~osc_enabled
    /\ shogun_panel.name # <<>>
    /\ shogun_panel.description # <<>>
    /\ shogun_panel.folder # <<>>
    /\ sent = <<>>
    /\ log_panel = <<>>

====
